---- MODULE Spec2Model ----
(***************************************************************************)
(* NAI image metadata parser (nai-metadata.ts): the structured-dialect     *)
(* normalizer convertNAIFormat, the legacy text parser parseA1111Format,   *)
(* the PNG text-chunk scanner extractTextChunkMetadata, the stealth-alpha  *)
(* decoder extractStealthMetadata and the entry point parseNAIMetadata.    *)
(*                                                                         *)
(* JavaScript values are tagged records: field t is the value's kind.      *)
(* An object is a function over the fixed key set Keys in which a key the  *)
(* object does not have maps to Undef (JSON never holds undefined, so      *)
(* "key absent" and "reads as undefined" coincide).  Numbers are integers. *)
(***************************************************************************)
EXTENDS Integers, Sequences, FiniteSets, TLC

VARIABLES
    data,           \* convertNAIFormat: its argument
    converted,      \* convertNAIFormat: its return value (Pending before the call)
    bytes,          \* parseNAIMetadata: the input buffer, a sequence of bytes
    stream,         \* the chunks the buffer was built from (never read by the code)
    env,            \* the collaborators' behaviour for this call [raster, img]
    pc,             \* parseNAIMetadata: position in the call
    imageType,      \* parseNAIMetadata: local imageType
    isPng,          \* parseNAIMetadata: local isPng
    offset,         \* extractTextChunkMetadata: local offset (a byte index from 0)
    chunkMetadata,  \* extractTextChunkMetadata: local metadata
    modelSource,    \* extractTextChunkMetadata: local modelSource
    metadata,       \* parseNAIMetadata: local metadata
    calls,          \* the collaborators and decoders invoked so far in this call
    outcome,        \* how the call ended: Pending, [t |-> "return", v], or Throw
    a1111Lines,     \* the lines a1111Text is made of (never read by the code)
    a1111Text,      \* parseA1111Format: its argument
    a1111Result,    \* parseA1111Format: its return value (Pending before the call)
    imageData,      \* extractStealthMetadata: its argument [data, width, height]
    gzipAvailable,  \* whether the platform has DecompressionStream
    x,              \* extractStealthMetadata: loop variable x
    y,              \* extractStealthMetadata: loop variable y
    bufferA,        \* extractStealthMetadata: local bufferA
    indexA,         \* extractStealthMetadata: local indexA
    sigConfirmed,   \* extractStealthMetadata: local sigConfirmed
    confirmingSignature, \* extractStealthMetadata: local confirmingSignature
    readingParamLen,     \* extractStealthMetadata: local readingParamLen
    readingParam,   \* extractStealthMetadata: local readingParam
    readEnd,        \* extractStealthMetadata: local readEnd
    paramLen,       \* extractStealthMetadata: local paramLen
    binaryData,     \* extractStealthMetadata: local binaryData
    compressed,     \* extractStealthMetadata: local compressed
    bitLog,         \* every bit appended to bufferA so far (never read by the code)
    stealthPc,      \* extractStealthMetadata: position in the call
    stealthResult,  \* extractStealthMetadata: its return value (Pending before)
    firstOutcome,   \* how an earlier call on the same buffer ended (Pending: none)
    processing,     \* generation.ts: module variable processing
    queue,          \* generation.ts: module variable queue (job ids)
    batchTiming,    \* generation.ts: module variable batchTiming (Null before)
    jobs,           \* the generationJobs table: job id -> row (NoRow: none)
    settings,       \* the settings table, as processJob reads it
    queuePc,        \* where processQueue / processJob is suspended ("idle": not running)
    jobId,          \* processQueue: local jobId (0 before the first shift)
    imageNo,        \* processJob: loop variable i
    activeLoops,    \* processQueue activations that are past the guard
    enqueued,       \* the job ids passed to enqueueJob, in order (never read by the code)
    started         \* the job ids passed to processJob, in order (never read by the code)

\* The variables of the specifications that run one function on its own.
a1111Vars == <<a1111Lines, a1111Text, a1111Result>>
stealthLocals ==
    <<x, y, bufferA, indexA, sigConfirmed, confirmingSignature, readingParamLen,
      readingParam, readEnd, paramLen, binaryData, compressed>>
stealthVars ==
    <<imageData, gzipAvailable, stealthLocals, bitLog, stealthPc, stealthResult>>
unitVars == <<a1111Vars, stealthVars, firstOutcome>>

\* The variables of the generation queue.
queueVars ==
    <<processing, queue, batchTiming, jobs, settings, queuePc, jobId, imageNo,
      activeLoops, enqueued, started>>

\* The variables of the metadata parser.
metadataVars ==
    <<data, converted, bytes, stream, env, pc, imageType, isPng, offset,
      chunkMetadata, modelSource, metadata, calls, outcome, unitVars>>

vars == <<metadataVars, queueVars>>

(***************************************************************************)
(* JavaScript values                                                       *)
(***************************************************************************)
Undef == [t |-> "undefined"]
Null == [t |-> "null"]
NaN == [t |-> "number", nan |-> TRUE, n |-> 0]
Num(n) == [t |-> "number", nan |-> FALSE, n |-> n]
Str(s) == [t |-> "string", s |-> s]
Bool(b) == [t |-> "boolean", b |-> b]
Arr(a) == [t |-> "array", a |-> a]
Obj(o) == [t |-> "object", o |-> o]

\* A thrown exception, as the result of evaluating an expression.
Throw == [t |-> "throw"]
\* A call that has not returned yet.
Pending == [t |-> "pending"]

Keys ==
    {"prompt", "v4_negative_prompt", "v4_prompt", "caption", "base_caption",
     "uc", "negative_prompt", "undesired_content",
     "steps", "scale", "cfg_rescale", "seed", "sampler", "noise_schedule",
     "sm", "sm_dyn", "skip_cfg_above_sigma", "qualityToggle", "ucPreset",
     "width", "height",
     "reference_strength_multiple", "reference_information_extracted_multiple",
     "director_reference_strengths", "director_reference_secondary_strengths",
     "Comment", "customField"}

\* The object literal with the fields of record f and no others.
Mk(f) == Obj([k \in Keys |-> IF k \in DOMAIN f THEN f[k] ELSE Undef])
EmptyObj == Obj([k \in Keys |-> Undef])

Nullish(v) == v.t \in {"null", "undefined"}

\* if (v) ...: JavaScript truthiness.
Truthy(v) ==
    CASE v.t \in {"undefined", "null"} -> FALSE
      [] v.t = "number" -> ~v.nan /\ v.n # 0
      [] v.t = "string" -> v.s # ""
      [] v.t = "boolean" -> v.b
      [] OTHER -> TRUE

\* v.k for a value that is neither null nor undefined.
Get(v, k) == IF v.t = "object" THEN v.o[k] ELSE Undef

\* v?.k
OptGet(v, k) == IF Nullish(v) THEN Undef ELSE Get(v, k)

\* a[i] (i counted from 0): an array element or a character of a string;
\* reading past the end, or indexing any other value, gives undefined.
Index(v, i) ==
    CASE v.t = "array" /\ i + 1 \in 1..Len(v.a) -> v.a[i + 1]
      [] v.t = "string" /\ i + 1 \in 1..Len(v.s) -> Str(SubSeq(v.s, i + 1, i + 1))
      [] OTHER -> Undef

\* a ?? b
NullishOr(a, b) == IF Nullish(a) THEN b ELSE a

\* a || b
Or(a, b) == IF Truthy(a) THEN a ELSE b

\* The decimal literals the model's strings hold: StringToNumber of any
\* other non-empty string is NaN.
StringToNumber(s) ==
    CASE s = "" -> Num(0)
      [] s = "0" -> Num(0)
      [] s = "7" -> Num(7)
      [] s = "28" -> Num(28)
      [] OTHER -> NaN

RECURSIVE JoinComma(_)
RECURSIVE ToStr(_)
\* String(v)
ToStr(v) ==
    CASE v.t = "string" -> v.s
      [] v.t = "number" -> IF v.nan THEN "NaN" ELSE ToString(v.n)
      [] v.t = "boolean" -> IF v.b THEN "true" ELSE "false"
      [] v.t = "null" -> "null"
      [] v.t = "undefined" -> "undefined"
      [] v.t = "array" -> JoinComma(v.a)
      [] OTHER -> "[object Object]"

\* Array.prototype.join(','): null and undefined elements give "".
JoinComma(a) ==
    IF a = <<>> THEN ""
    ELSE LET h == IF Nullish(a[1]) THEN "" ELSE ToStr(a[1])
         IN IF Len(a) = 1 THEN h ELSE h \o "," \o JoinComma(Tail(a))

\* Number(v)
ToNum(v) ==
    CASE v.t = "number" -> v
      [] v.t = "string" -> StringToNumber(v.s)
      [] v.t = "boolean" -> IF v.b THEN Num(1) ELSE Num(0)
      [] v.t = "null" -> Num(0)
      [] v.t = "undefined" -> NaN
      [] v.t = "array" -> StringToNumber(ToStr(v))
      [] OTHER -> NaN

(***************************************************************************)
(* NAIMetadata: a record with every field of the interface; Undef is a     *)
(* field that is not set.                                                  *)
(***************************************************************************)
EmptyMetadata ==
    [t |-> "metadata",
     prompt |-> Undef, negativePrompt |-> Undef, model |-> Undef,
     steps |-> Undef, cfgScale |-> Undef, cfgRescale |-> Undef, seed |-> Undef,
     sampler |-> Undef, scheduler |-> Undef,
     smea |-> Undef, smeaDyn |-> Undef, variety |-> Undef,
     qualityToggle |-> Undef, ucPreset |-> Undef,
     width |-> Undef, height |-> Undef,
     v4_prompt |-> Undef, v4_negative_prompt |-> Undef,
     hasVibeTransfer |-> Undef, hasCharacterReference |-> Undef,
     vibeTransferInfo |-> Undef, characterReferenceInfo |-> Undef,
     source |-> Undef, raw |-> Undef]

(***************************************************************************)
(* convertNAIFormat                                                        *)
(***************************************************************************)
\* if (data.k) metadata.f = String(data.k)
StringField(d, k) == IF Truthy(Get(d, k)) THEN Str(ToStr(Get(d, k))) ELSE Undef

\* Mutant of NumberField: the guard tests presence (!== undefined), not truthiness.
NumberField_PresenceGuard(d, k) ==
    IF Get(d, k) # Undef THEN ToNum(Get(d, k)) ELSE Undef

\* if (data.k) metadata.f = Number(data.k)
NumberField(d, k) == IF Truthy(Get(d, k)) THEN ToNum(Get(d, k)) ELSE Undef

\* if (typeof data.k === 'boolean') metadata.f = data.k
BooleanField(d, k) == IF Get(d, k).t = "boolean" THEN Get(d, k) ELSE Undef

\* Mutant of TypedNumberField: the guard is the truthiness of the value.
TypedNumberField_Truthy(d, k) == IF Truthy(Get(d, k)) THEN Get(d, k) ELSE Undef

\* if (typeof data.k === 'number') metadata.f = data.k
TypedNumberField(d, k) == IF Get(d, k).t = "number" THEN Get(d, k) ELSE Undef

\* if (data.k) metadata.f = data.k
PassThrough(d, k) == IF Truthy(Get(d, k)) THEN Get(d, k) ELSE Undef

\* Mutant of NegativePrompt: uc is consulted before the V4 base caption.
NegativePrompt_UcFirst(d) ==
    LET base == OptGet(OptGet(Get(d, "v4_negative_prompt"), "caption"), "base_caption")
    IN IF Truthy(Get(d, "uc")) THEN Str(ToStr(Get(d, "uc")))
       ELSE IF Truthy(base) THEN Str(ToStr(base))
       ELSE IF Truthy(Get(d, "negative_prompt"))
            THEN Str(ToStr(Get(d, "negative_prompt")))
       ELSE IF Truthy(Get(d, "undesired_content"))
            THEN Str(ToStr(Get(d, "undesired_content")))
       ELSE Undef

\* Negative prompt: V4 > uc > negative_prompt > undesired_content
NegativePrompt(d) ==
    LET base == OptGet(OptGet(Get(d, "v4_negative_prompt"), "caption"), "base_caption")
    IN IF Truthy(base) THEN Str(ToStr(base))
       ELSE IF Truthy(Get(d, "uc")) THEN Str(ToStr(Get(d, "uc")))
       ELSE IF Truthy(Get(d, "negative_prompt"))
            THEN Str(ToStr(Get(d, "negative_prompt")))
       ELSE IF Truthy(Get(d, "undesired_content"))
            THEN Str(ToStr(Get(d, "undesired_content")))
       ELSE Undef

\* Mutant of Variety: the guard is a truthiness test, as for the numeric keys.
Variety_Truthy(d) ==
    IF Truthy(Get(d, "skip_cfg_above_sigma")) THEN Bool(TRUE) ELSE Undef

\* if (data.skip_cfg_above_sigma !== undefined && data.skip_cfg_above_sigma !== null)
Variety(d) ==
    IF Get(d, "skip_cfg_above_sigma") # Undef /\ Get(d, "skip_cfg_above_sigma") # Null
    THEN Bool(TRUE) ELSE Undef

\* data.k && Array.isArray(data.k) && data.k.length > 0
HasReference(d, k) ==
    Truthy(Get(d, k)) /\ Get(d, k).t = "array" /\ Len(Get(d, k).a) > 0

\* Mutant of ReferenceEntry: the default is applied with || instead of ??.
ReferenceEntry_OrDefault(strength, infoExtracted, i) ==
    [strength |-> strength,
     informationExtracted |-> Or(Index(infoExtracted, i), Num(1))]

\* { strength, informationExtracted: infoExtracted[i] ?? 1.0 }
ReferenceEntry(strength, infoExtracted, i) ==
    [strength |-> strength,
     informationExtracted |-> NullishOr(Index(infoExtracted, i), Num(1))]

\* strengths.map((strength, i) => ...) with infoExtracted = data.k2 || []
ReferenceInfo(d, k, k2) ==
    LET strengths == Get(d, k).a
        infoExtracted == Or(Get(d, k2), Arr(<<>>))
    IN Arr([j \in 1..Len(strengths) |->
               ReferenceEntry(strengths[j], infoExtracted, j - 1)])

\* Mutant of Raw: raw is rebuilt from the keys the normalizer knows.
Raw_KnownKeysOnly(d) ==
    IF d.t = "object"
    THEN Obj([k \in Keys |-> IF k = "customField" THEN Undef ELSE d.o[k]])
    ELSE d

\* const metadata: NAIMetadata = { raw: data }
Raw(d) == d

convertNAIFormat(d) ==
    IF Nullish(d) THEN Throw    \* data.prompt on null: TypeError
    ELSE [EmptyMetadata EXCEPT
            !.raw = Raw(d),
            !.prompt = StringField(d, "prompt"),
            !.negativePrompt = NegativePrompt(d),
            !.steps = NumberField(d, "steps"),
            !.cfgScale = NumberField(d, "scale"),
            !.cfgRescale = NumberField(d, "cfg_rescale"),
            !.seed = NumberField(d, "seed"),
            !.sampler = StringField(d, "sampler"),
            !.scheduler = StringField(d, "noise_schedule"),
            !.smea = BooleanField(d, "sm"),
            !.smeaDyn = BooleanField(d, "sm_dyn"),
            !.variety = Variety(d),
            !.qualityToggle = BooleanField(d, "qualityToggle"),
            !.ucPreset = TypedNumberField(d, "ucPreset"),
            !.width = NumberField(d, "width"),
            !.height = NumberField(d, "height"),
            !.v4_prompt = PassThrough(d, "v4_prompt"),
            !.v4_negative_prompt = PassThrough(d, "v4_negative_prompt"),
            !.hasVibeTransfer =
                IF HasReference(d, "reference_strength_multiple")
                THEN Bool(TRUE) ELSE Undef,
            !.vibeTransferInfo =
                IF HasReference(d, "reference_strength_multiple")
                THEN ReferenceInfo(d, "reference_strength_multiple",
                                   "reference_information_extracted_multiple")
                ELSE Undef,
            !.hasCharacterReference =
                IF HasReference(d, "director_reference_strengths")
                THEN Bool(TRUE) ELSE Undef,
            !.characterReferenceInfo =
                IF HasReference(d, "director_reference_strengths")
                THEN ReferenceInfo(d, "director_reference_strengths",
                                   "director_reference_secondary_strengths")
                ELSE Undef]

(***************************************************************************)
(* Strings.  A TLA+ string is the JavaScript string of the same characters *)
(* (positions are 1-based here, 0-based in the source).                    *)
(***************************************************************************)
\* s.startsWith(p); also line.match(/^p/) for a literal p
StartsWith(s, p) == Len(s) >= Len(p) /\ SubSeq(s, 1, Len(p)) = p

RECURSIVE IndexFrom(_, _, _)
\* The first position >= i at which p occurs in s, or 0.
IndexFrom(s, p, i) ==
    IF i + Len(p) - 1 > Len(s) THEN 0
    ELSE IF SubSeq(s, i, i + Len(p) - 1) = p THEN i
    ELSE IndexFrom(s, p, i + 1)

RECURSIVE Split(_, _)
\* s.split(sep) for a non-empty separator
Split(s, sep) ==
    LET i == IndexFrom(s, sep, 1)
    IN IF i = 0 THEN <<s>>
       ELSE <<SubSeq(s, 1, i - 1)>> \o Split(SubSeq(s, i + Len(sep), Len(s)), sep)

RECURSIVE Join(_, _)
\* a.join(sep) for an array of strings
Join(a, sep) ==
    IF a = <<>> THEN ""
    ELSE IF Len(a) = 1 THEN a[1]
    ELSE a[1] \o sep \o Join(Tail(a), sep)

\* s.replace(p, r) for a literal p: the first occurrence only
ReplaceFirst(s, p, r) ==
    LET i == IndexFrom(s, p, 1)
    IN IF i = 0 THEN s
       ELSE SubSeq(s, 1, i - 1) \o r \o SubSeq(s, i + Len(p), Len(s))

IsSpace(c) == c \in {" ", "\n", "\t", "\r"}

RECURSIVE TrimStart(_)
TrimStart(s) == IF s # "" /\ IsSpace(Head(s)) THEN TrimStart(Tail(s)) ELSE s

RECURSIVE TrimEnd(_)
TrimEnd(s) ==
    IF s # "" /\ IsSpace(SubSeq(s, Len(s), Len(s)))
    THEN TrimEnd(SubSeq(s, 1, Len(s) - 1)) ELSE s

\* s.trim()
Trim(s) == TrimEnd(TrimStart(s))

Digits == {"0", "1", "2", "3", "4", "5", "6", "7", "8", "9"}
DigitValue(c) ==
    CASE c = "0" -> 0 [] c = "1" -> 1 [] c = "2" -> 2 [] c = "3" -> 3
      [] c = "4" -> 4 [] c = "5" -> 5 [] c = "6" -> 6 [] c = "7" -> 7
      [] c = "8" -> 8 [] c = "9" -> 9

RECURSIVE DigitPrefix(_)
\* The longest prefix of s made of decimal digits.
DigitPrefix(s) ==
    IF s # "" /\ Head(s) \in Digits THEN Head(s) \o DigitPrefix(Tail(s)) ELSE ""

RECURSIVE DigitsValue(_, _)
\* The number a string of decimal digits denotes, acc being the digits read.
DigitsValue(s, acc) ==
    IF s = "" THEN acc ELSE DigitsValue(Tail(s), 10 * acc + DigitValue(Head(s)))

\* parseInt(s): leading white space, an optional sign, then decimal digits up
\* to the first other character; NaN without a digit.  (Hexadecimal "0x"
\* literals are not among the model's strings.)
ParseInt(s) ==
    LET t == TrimStart(s)
        neg == StartsWith(t, "-")
        u == IF StartsWith(t, "-") \/ StartsWith(t, "+") THEN Tail(t) ELSE t
        d == DigitPrefix(u)
    IN IF d = "" THEN NaN
       ELSE Num(IF neg THEN 0 - DigitsValue(d, 0) ELSE DigitsValue(d, 0))

\* parseFloat(s): as ParseInt for a literal without a fraction; a literal
\* with fraction digits f is the non-integer number [n, f].  (Exponents and a
\* leading "." are not among the model's strings.)
ParseFloat(s) ==
    LET t == TrimStart(s)
        u == IF StartsWith(t, "-") \/ StartsWith(t, "+") THEN Tail(t) ELSE t
        d == DigitPrefix(u)
        rest == SubSeq(u, Len(d) + 1, Len(u))
        f == IF StartsWith(rest, ".") THEN DigitPrefix(Tail(rest)) ELSE ""
    IN IF d = "" \/ f = "" THEN ParseInt(s)
       ELSE [t |-> "number", nan |-> FALSE, n |-> ParseInt(s).n, f |-> f]

(***************************************************************************)
(* parseA1111Format                                                        *)
(***************************************************************************)
RECURSIVE MarkerScan(_, _, _)
\* The for loop over the lines from index i (1-based) on: the pair
\* <<negativeStart, paramsStart>> it ends with (0 is the source's -1).
MarkerScan(lines, i, negativeStart) ==
    IF i > Len(lines) THEN <<negativeStart, 0>>
    ELSE IF StartsWith(lines[i], "Negative prompt:") THEN MarkerScan(lines, i + 1, i)
    ELSE IF StartsWith(lines[i], "Steps:") THEN <<negativeStart, i>>
    ELSE MarkerScan(lines, i + 1, negativeStart)

\* One "key: value" parameter of the Steps: line applied to metadata m.
ApplyParam(m, param) ==
    LET kv == Split(param, ": ")
        key == kv[1]
        value == IF Len(kv) >= 2 THEN kv[2] ELSE ""
    IN IF key = "" \/ value = "" THEN m
       ELSE CASE Trim(key) = "Steps" -> [m EXCEPT !.steps = ParseInt(value)]
              [] Trim(key) = "Sampler" -> [m EXCEPT !.sampler = Str(value)]
              [] Trim(key) = "CFG scale" -> [m EXCEPT !.cfgScale = ParseFloat(value)]
              [] Trim(key) = "Seed" -> [m EXCEPT !.seed = ParseInt(value)]
              [] Trim(key) = "Size" ->
                    LET wh == Split(value, "x")
                    IN [m EXCEPT !.width = ParseInt(wh[1]),
                                 !.height = IF Len(wh) >= 2 THEN ParseInt(wh[2])
                                            ELSE NaN]
              [] OTHER -> m

RECURSIVE ApplyParams(_, _)
ApplyParams(m, params) ==
    IF params = <<>> THEN m
    ELSE ApplyParams(ApplyParam(m, Head(params)), Tail(params))

\* Mutant of TooShort: a text of one line is parsed like any other.
TooShort_Never(lines) == FALSE

\* if (lines.length < 2) return null
TooShort(lines) == Len(lines) < 2

parseA1111Format(text) ==
    LET lines == Split(text, "\n")
        marks == MarkerScan(lines, 1, 0)
        negativeStart == marks[1]
        paramsStart == marks[2]
        promptEnd == IF negativeStart # 0 THEN negativeStart ELSE paramsStart
        m1 == IF promptEnd > 1
              THEN [EmptyMetadata EXCEPT
                       !.prompt = Str(Join(SubSeq(lines, 1, promptEnd - 1), "\n"))]
              ELSE EmptyMetadata
        m2 == IF negativeStart # 0 /\ paramsStart # 0
              THEN LET negLines == SubSeq(lines, negativeStart, paramsStart - 1)
                   IN [m1 EXCEPT !.negativePrompt =
                          Str(Join(<<ReplaceFirst(negLines[1], "Negative prompt: ", "")>>
                                      \o Tail(negLines), "\n"))]
              ELSE m1
    IN IF TooShort(lines) THEN Null
       ELSE IF negativeStart = 0 /\ paramsStart = 0 THEN Null
       ELSE IF paramsStart # 0
            THEN ApplyParams(m2, Split(lines[paramsStart], ", "))
       ELSE m2

(***************************************************************************)
(* JSON.parse.  The platform's parser is a table over the model's strings: *)
(* it lists every string of the model that is valid JSON; any other string *)
(* of the model is not, and JSON.parse throws a SyntaxError on it.         *)
(***************************************************************************)
J_Null == "null"
J_Five == "5"
J_Empty == "{}"
J_Prompt == "{\"prompt\":\"test\"}"
J_Basic == "{\"prompt\":\"1girl\",\"uc\":\"lowres\",\"steps\":28,\"seed\":0}"
J_Custom == "{\"customField\":\"custom\"}"
J_Inner == "{\"prompt\":\"inner\"}"
J_Wrapped == "{\"Comment\":\"{\\\"prompt\\\":\\\"inner\\\"}\"}"
J_PlainComment == "{\"Comment\":\"plain words\",\"prompt\":\"outer\"}"
J_BlankComment == "{\"Comment\":\"\",\"steps\":28}"

JSONParse(s) ==
    CASE s = J_Null -> Null
      [] s = J_Five -> Num(5)
      [] s = J_Empty -> EmptyObj
      [] s = J_Prompt -> Mk([prompt |-> Str("test")])
      [] s = J_Basic -> Mk([prompt |-> Str("1girl"), uc |-> Str("lowres"),
                            steps |-> Num(28), seed |-> Num(0)])
      [] s = J_Custom -> Mk([customField |-> Str("custom")])
      [] s = J_Inner -> Mk([prompt |-> Str("inner")])
      [] s = J_Wrapped -> Mk([Comment |-> Str(J_Inner)])
      [] s = J_PlainComment -> Mk([Comment |-> Str("plain words"),
                                   prompt |-> Str("outer")])
      [] s = J_BlankComment -> Mk([Comment |-> Str(""), steps |-> Num(28)])
      [] OTHER -> Throw

(***************************************************************************)
(* extractStealthMetadata, from the point where the pixel loop has ended.  *)
(* imageData is described by what the loop leaves behind: sigConfirmed,    *)
(* compressed, the number of payload bits in binaryData, whether gunzip    *)
(* accepts the payload bytes, and the text the payload bytes decode to.    *)
(***************************************************************************)
\* await decompressGzip(byteData): the text, or the Error it throws
decompressGzip(img) == IF img.inflates THEN Str(img.text) ELSE Throw

\* jsonData after the   if (jsonData.Comment && typeof ... === 'string')   block
ReparseComment(jsonData) ==
    LET c == Get(jsonData, "Comment")
    IN IF Truthy(c) /\ c.t = "string" /\ JSONParse(c.s) # Throw
       THEN Obj([jsonData.o EXCEPT !["Comment"] = JSONParse(c.s)])
       ELSE jsonData

\* Mutant of SourceData: the payload itself is never used.
SourceData_CommentOnly(jsonData) == Get(jsonData, "Comment")

\* const sourceData = jsonData.Comment || jsonData
SourceData(jsonData) == Or(Get(jsonData, "Comment"), jsonData)

\* The body of the try block: the metadata, null, or Throw.
StealthBody(img) ==
    IF ~img.sigConfirmed \/ img.bits = 0 THEN Null
    ELSE LET jsonString == IF img.compressed THEN decompressGzip(img)
                           ELSE Str(img.text)
             jsonData == IF jsonString = Throw THEN Throw
                         ELSE JSONParse(jsonString.s)
         IN IF jsonData = Throw THEN Throw
            ELSE IF Nullish(jsonData) THEN Throw    \* jsonData.Comment on null
            ELSE LET m == convertNAIFormat(SourceData(ReparseComment(jsonData)))
                 IN IF m = Throw THEN Throw
                    ELSE [m EXCEPT !.source = Str("stealth_alpha")]

\* Mutant of extractStealthMetadata: no catch clause.
extractStealthMetadata_NoCatch(img) == StealthBody(img)

\* try { ... } catch (error) { return null }
extractStealthMetadata(img) ==
    IF StealthBody(img) = Throw THEN Null ELSE StealthBody(img)

(***************************************************************************)
(* Bytes and text.  A buffer is a sequence of bytes 0..255; its elements   *)
(* are counted from 0, as in the source.                                   *)
(***************************************************************************)
\* bytes[i]; -1 stands for undefined (an index outside the buffer)
ByteAt(b, i) == IF i + 1 \in 1..Len(b) THEN b[i + 1] ELSE -1

\* The characters with the codes 32..95 and 97..126.
PrintableLow ==
    " !\"#$%&'()*+,-./0123456789:;<=>?@ABCDEFGHIJKLMNOPQRSTUVWXYZ[\\]^_"
PrintableHigh == "abcdefghijklmnopqrstuvwxyz{|}~"

CharAt(s, i) == SubSeq(s, i, i)

\* The stand-in for every character that is neither in the tables above nor
\* a newline: a decoded control character, or the replacement character.
Unprintable == "\\x"

\* The character of a byte, for TextDecoder and String.fromCharCode.
Chr(b) ==
    CASE b = 10 -> "\n"
      [] b \in 32..95 -> CharAt(PrintableLow, b - 31)
      [] b \in 97..126 -> CharAt(PrintableHigh, b - 96)
      [] OTHER -> Unprintable

\* The code of each character the model's texts are written in.
CharCode ==
    [c \in {Chr(b) : b \in (32..95) \cup (97..126) \cup {10}} |->
        CHOOSE b \in (32..95) \cup (97..126) \cup {10} : Chr(b) = c]

\* new TextEncoder().encode(s)
Encode(s) == [i \in 1..Len(s) |-> CharCode[CharAt(s, i)]]

\* The text of the bytes d[lo..hi].
RECURSIVE Decode(_, _, _)
Decode(d, lo, hi) ==
    IF lo > hi THEN ""
    ELSE IF lo = hi THEN Chr(d[lo])
    ELSE LET mid == (lo + hi) \div 2
         IN Decode(d, lo, mid) \o Decode(d, mid + 1, hi)

\* new TextDecoder('utf-8').decode(d), split at its NUL characters: the k-th
\* field is the text between the (k-1)-th and the k-th NUL.
DecodeFields(d) ==
    LET nuls == {i \in 1..Len(d) : d[i] = 0}
        Nul(k) == IF k = 0 THEN 0
                  ELSE IF k > Cardinality(nuls) THEN Len(d) + 1
                  ELSE CHOOSE i \in nuls : Cardinality({j \in nuls : j < i}) = k - 1
    IN [k \in 1..(Cardinality(nuls) + 1) |-> Decode(d, Nul(k - 1) + 1, Nul(k) - 1)]

\* (b[o] << 24) | (b[o+1] << 16) | (b[o+2] << 8) | b[o+3]: a signed 32-bit
\* integer; an undefined operand counts as 0.
ReadLength(b, o) ==
    LET Byte(i) == IF ByteAt(b, i) = -1 THEN 0 ELSE ByteAt(b, i)
        high == IF Byte(o) >= 128 THEN Byte(o) - 256 ELSE Byte(o)
    IN high * 16777216 + Byte(o + 1) * 65536 + Byte(o + 2) * 256 + Byte(o + 3)

\* String.fromCharCode(b[o], b[o+1], b[o+2], b[o+3])
ReadType(b, o) ==
    Chr(ByteAt(b, o)) \o Chr(ByteAt(b, o + 1)) \o Chr(ByteAt(b, o + 2))
        \o Chr(ByteAt(b, o + 3))

\* b.slice(start, end): a negative index counts from the end of the buffer,
\* and both indices are clamped to the buffer.
Slice(b, start, end) ==
    LET Rel(k) == IF k < 0 THEN (IF Len(b) + k < 0 THEN 0 ELSE Len(b) + k)
                  ELSE IF k > Len(b) THEN Len(b) ELSE k
    IN IF Rel(end) <= Rel(start) THEN <<>>
       ELSE SubSeq(b, Rel(start) + 1, Rel(end))

(***************************************************************************)
(* extractTextChunkMetadata.  The loop body reads a chunk [type, length,   *)
(* fields] at offset: fields is the decoded chunk data split at its NUL    *)
(* characters, so a text chunk "keyword NUL value" has two fields or more  *)
(* and data without a NUL has one.                                         *)
(***************************************************************************)
\* The chunk the loop body reads at offset o: the length field, the type and,
\* for a tEXt or iTXt chunk, the fields of textData.
ChunkAt(b, o) ==
    LET length == ReadLength(b, o)
        type == ReadType(b, o + 4)
    IN [type |-> type,
        length |-> length,
        fields |-> IF type \in {"tEXt", "iTXt"}
                   THEN DecodeFields(Slice(b, o + 8, o + 8 + length))
                   ELSE <<"">>]

\* The stand-in for the NUL character inside a string.
NUL == "\\0"

\* textData.indexOf('\0') !== -1
HasKeyword(c) == Len(c.fields) >= 2

\* textData.slice(0, nullIndex)
Keyword(c) == c.fields[1]

\* value: textData.slice(nullIndex + 1), and for iTXt the last NUL-separated
\* part of it unless that part is empty
ChunkValue(c) ==
    LET parts == Tail(c.fields)
        value == Join(parts, NUL)
    IN IF c.type = "iTXt" /\ parts[Len(parts)] # "" THEN parts[Len(parts)]
       ELSE value

\* Mutant of CommentMetadata: the text-dialect result is not tagged.
CommentMetadata_UntaggedFallback(value) ==
    LET parsed == JSONParse(value)
        conv == IF parsed = Throw THEN Throw ELSE convertNAIFormat(parsed)
    IN IF conv # Throw THEN [conv EXCEPT !.source = Str("text_chunk")]
       ELSE parseA1111Format(value)

\* The try/catch on a Comment or parameters value: the new metadata.
CommentMetadata(value) ==
    LET parsed == JSONParse(value)
        conv == IF parsed = Throw THEN Throw ELSE convertNAIFormat(parsed)
        a1111 == parseA1111Format(value)
    IN IF conv # Throw THEN [conv EXCEPT !.source = Str("text_chunk")]
       ELSE IF a1111 # Null THEN [a1111 EXCEPT !.source = Str("text_chunk")]
       ELSE Null

\* c is a tEXt or iTXt chunk whose data holds a NUL.
IsTextChunk(c) == c.type \in {"tEXt", "iTXt"} /\ HasKeyword(c)

\* Mutant of ScanMetadata: the keyword of a text chunk is not looked at.
ScanMetadata_AnyKeyword(old, c) ==
    IF IsTextChunk(c) THEN CommentMetadata(ChunkValue(c)) ELSE old

\* Mutant of ScanMetadata: a result already found is kept (first chunk wins).
ScanMetadata_FirstWins(old, c) ==
    IF old = Null /\ IsTextChunk(c) /\ Keyword(c) \in {"Comment", "parameters"}
    THEN CommentMetadata(ChunkValue(c))
    ELSE old

\* metadata after the loop body has run on chunk c
ScanMetadata(old, c) ==
    IF IsTextChunk(c) /\ Keyword(c) \in {"Comment", "parameters"}
    THEN CommentMetadata(ChunkValue(c))
    ELSE old

\* Mutant of ScanModelSource: a model name already found is kept.
ScanModelSource_FirstWins(old, c) ==
    IF old = Null /\ IsTextChunk(c) /\ Keyword(c) = "Source"
    THEN Str(ChunkValue(c))
    ELSE old

\* modelSource after the loop body has run on chunk c
ScanModelSource(old, c) ==
    IF IsTextChunk(c) /\ Keyword(c) = "Source" THEN Str(ChunkValue(c)) ELSE old

\* if (metadata && modelSource) metadata.model = modelSource; return metadata
AttachModel(m, source) ==
    IF Truthy(m) /\ Truthy(source) THEN [m EXCEPT !.model = source] ELSE m

(***************************************************************************)
(* detectImageType and the signature test of parseNAIMetadata              *)
(***************************************************************************)
\* Mutant of detectImageType: every RIFF container is taken for WebP.
detectImageType_AnyRiff(b) ==
    IF ByteAt(b, 0) = 137 /\ ByteAt(b, 1) = 80 /\ ByteAt(b, 2) = 78 /\ ByteAt(b, 3) = 71
    THEN "image/png"
    ELSE IF /\ ByteAt(b, 0) = 82 /\ ByteAt(b, 1) = 73
            /\ ByteAt(b, 2) = 70 /\ ByteAt(b, 3) = 70
    THEN "image/webp"
    ELSE IF ByteAt(b, 0) = 255 /\ ByteAt(b, 1) = 216 /\ ByteAt(b, 2) = 255
    THEN "image/jpeg"
    ELSE "image/png"

detectImageType(b) ==
    IF ByteAt(b, 0) = 137 /\ ByteAt(b, 1) = 80 /\ ByteAt(b, 2) = 78 /\ ByteAt(b, 3) = 71
    THEN "image/png"
    ELSE IF /\ ByteAt(b, 0) = 82 /\ ByteAt(b, 1) = 73
            /\ ByteAt(b, 2) = 70 /\ ByteAt(b, 3) = 70
            /\ ByteAt(b, 8) = 87 /\ ByteAt(b, 9) = 69
            /\ ByteAt(b, 10) = 66 /\ ByteAt(b, 11) = 80
    THEN "image/webp"
    ELSE IF ByteAt(b, 0) = 255 /\ ByteAt(b, 1) = 216 /\ ByteAt(b, 2) = 255
    THEN "image/jpeg"
    ELSE "image/png"

pngSig == <<137, 80, 78, 71, 13, 10, 26, 10>>

\* Mutant of HasPngSignature: only the 4 bytes the sniffer looks at are tested.
HasPngSignature_Magic(b) == \A i \in 0..3 : ByteAt(b, i) = pngSig[i + 1]

\* The loop   for (let i = 0; i < 8; i++) if (bytes[i] !== pngSig[i]) ...
HasPngSignature(b) == \A i \in 0..7 : ByteAt(b, i) = pngSig[i + 1]

\* Mutant of NeedsFallback: the stealth decoder is always tried.
NeedsFallback_Always(m) == TRUE

\* Mutant of NeedsFallback: the stealth decoder is never tried.
NeedsFallback_Never(m) == FALSE

\* if (!metadata)
NeedsFallback(m) == ~Truthy(m)

\* Mutant of Caught: the fault is handed on to the caller.
Caught_Rethrow(error) == error

\* catch (error) { console.error(...); return null }
Caught(error) == [t |-> "return", v |-> Null]

(***************************************************************************)
(* Inputs of the normalizer: the records JSON.parse can hand it.           *)
(***************************************************************************)
\* Longest reference_strength_multiple / director_reference_strengths list
\* and longest secondary list.
MaxRefs == 2

\* The least element of a non-empty set of integers.
Least(S) == CHOOSE i \in S : \A j \in S : i <= j

\* All sequences over S of length at most n.
SeqsUpTo(S, n) == UNION {[1..m -> S] : m \in 0..n}

V4Negatives ==
    {Undef, Null, Str("v4 as text"),
     Mk([caption |-> Null]),
     Mk([caption |-> Mk([base_caption |-> Str("")])]),
     Mk([caption |-> Mk([base_caption |-> Str("from v4 negative")])])}

NegativeInputs ==
    {Mk([prompt |-> Str("test"), v4_negative_prompt |-> v4, uc |-> uc,
         negative_prompt |-> np, undesired_content |-> ud]) :
        v4 \in V4Negatives,
        uc \in {Undef, Str(""), Str("from uc field")},
        np \in {Undef, Str(""), Str("from negative_prompt")},
        ud \in {Undef, Str("from undesired_content")}}

NumericKeys == {"steps", "scale", "cfg_rescale", "seed", "width", "height"}

\* The canonical field each numeric source key is mapped to.
NumericTarget(k) ==
    CASE k = "steps" -> "steps"
      [] k = "scale" -> "cfgScale"
      [] k = "cfg_rescale" -> "cfgRescale"
      [] k = "seed" -> "seed"
      [] k = "width" -> "width"
      [] k = "height" -> "height"

NumericValues ==
    {Undef, Null, Num(0), Num(28), Num(-1), Str(""), Str("0"), Str("28"),
     Str("k_euler"), Bool(TRUE), Bool(FALSE), Arr(<<>>)}

NumericInputs ==
    {Obj([k \in Keys |-> IF k = k1 THEN v1 ELSE IF k = k2 THEN v2 ELSE Undef]) :
        k1 \in NumericKeys, k2 \in {"seed", "customField"},
        v1 \in NumericValues, v2 \in {Undef, Num(0), Num(12345)}}

VarietyInputs ==
    {Mk([prompt |-> p, skip_cfg_above_sigma |-> v]) :
        p \in {Undef, Str("test")},
        v \in {Undef, Null, Num(0), Num(19), Str(""), Bool(FALSE), Arr(<<>>)}}

Strengths == {Num(0), Num(6)}
Primaries ==
    {Undef, Null, Num(3), Str("ab")} \cup {Arr(a) : a \in SeqsUpTo(Strengths, MaxRefs)}
Secondaries ==
    {Undef, Null, Num(7)}
        \cup {Arr(a) : a \in SeqsUpTo({Null, Num(0), Num(5)}, MaxRefs)}

ReferenceInputs ==
    {Mk([reference_strength_multiple |-> p,
         reference_information_extracted_multiple |-> s]) :
        p \in Primaries, s \in Secondaries}
    \cup
    {Mk([director_reference_strengths |-> p,
         director_reference_secondary_strengths |-> s]) :
        p \in Primaries, s \in Secondaries}

\* A payload need not be an object: JSON.parse also yields these.
PrimitiveInputs == {Null, Num(5), Str("abc"), Bool(TRUE), Arr(<<>>), EmptyObj,
                    Mk([customField |-> Str("custom")])}

\* The keys mapped to a canonical field one to one, and their fields.
DirectKeys ==
    {"steps", "scale", "cfg_rescale", "seed", "sampler", "noise_schedule",
     "sm", "sm_dyn", "width", "height", "qualityToggle", "ucPreset"}

DirectTarget(k) ==
    CASE k \in NumericKeys -> NumericTarget(k)
      [] k = "sampler" -> "sampler"
      [] k = "noise_schedule" -> "scheduler"
      [] k = "sm" -> "smea"
      [] k = "sm_dyn" -> "smeaDyn"
      [] k = "qualityToggle" -> "qualityToggle"
      [] k = "ucPreset" -> "ucPreset"

DirectValues ==
    {Undef, Null, Num(0), Num(3), Str(""), Str("k_euler"), Bool(TRUE), Bool(FALSE)}

\* Records with one of the string, flag and preset keys next to a seed.
DirectInputs ==
    {Obj([k \in Keys |-> IF k = k1 THEN v1 ELSE IF k = "seed" THEN v2 ELSE Undef]) :
        k1 \in DirectKeys \ NumericKeys, v1 \in DirectValues,
        v2 \in {Undef, Num(0), Num(3)}}

NormalizerInputs ==
    NegativeInputs \cup NumericInputs \cup VarietyInputs \cup ReferenceInputs
        \cup PrimitiveInputs \cup DirectInputs

(***************************************************************************)
(* SpecNorm: convertNAIFormat applied to each input.                       *)
(***************************************************************************)
parseVars == <<bytes, stream, env, pc, imageType, isPng, offset, chunkMetadata,
               modelSource, metadata, calls, outcome>>

\* No parseNAIMetadata call is in progress.
NoParse ==
    /\ bytes = <<>>
    /\ stream = <<>>
    /\ env = [raster |-> "none"]
    /\ pc = "idle"
    /\ imageType = ""
    /\ isPng = FALSE
    /\ offset = 0
    /\ chunkMetadata = Null
    /\ modelSource = Null
    /\ metadata = Null
    /\ calls = {}
    /\ outcome = Pending

\* No parseA1111Format call of its own is in progress.
NoA1111 == a1111Lines = <<>> /\ a1111Text = "" /\ a1111Result = Pending

\* No call has been made before.
NoEarlierCall == firstOutcome = [t |-> "pending"]

\* The generation queue is not in use.
NoQueue ==
    /\ processing = FALSE
    /\ queue = <<>>
    /\ batchTiming = [t |-> "null"]
    /\ jobs = <<>>
    /\ settings = [apiKey |-> FALSE, delay |-> 0]
    /\ queuePc = "idle"
    /\ jobId = 0
    /\ imageNo = 0
    /\ activeLoops = 0
    /\ enqueued = <<>>
    /\ started = <<>>

\* No call of extractStealthMetadata on its own is in progress.
NoStealth ==
    /\ imageData = [data |-> <<>>, width |-> 0, height |-> 0]
    /\ gzipAvailable = FALSE
    /\ x = 0
    /\ y = 0
    /\ bufferA = ""
    /\ indexA = 0
    /\ sigConfirmed = FALSE
    /\ confirmingSignature = FALSE
    /\ readingParamLen = FALSE
    /\ readingParam = FALSE
    /\ readEnd = FALSE
    /\ paramLen = 0
    /\ binaryData = ""
    /\ compressed = FALSE
    /\ bitLog = ""
    /\ stealthPc = "idle"
    /\ stealthResult = Pending

InitNorm ==
    /\ data \in NormalizerInputs
    /\ converted = Pending
    /\ NoParse
    /\ NoA1111
    /\ NoStealth
    /\ NoEarlierCall
    /\ NoQueue

Normalize ==
    /\ pc = "idle"
    /\ converted = Pending
    /\ converted' = convertNAIFormat(data)
    /\ UNCHANGED <<queueVars, data, parseVars, unitVars>>

NextNorm == Normalize

SpecNorm == InitNorm /\ [][NextNorm]_vars

\* The normalizer has returned a record for data.
Normalized == converted.t = "metadata"

(***************************************************************************)
(* SpecA1111: parseA1111Format applied to each text.                       *)
(***************************************************************************)
\* Longest text, in lines.
MaxLines == 3

\* The lines the texts are made of: prompt words, the two markers (the
\* negative marker with and without the blank after the colon), a line that
\* holds "Steps:" but does not begin with it, and the empty line.
TextLinePool ==
    {"1girl, standing",
     "Negative prompt: lowres",
     "Negative prompt:blurry",
     "Steps: 28, Sampler: Euler a, CFG scale: 7, Seed: 42, Size: 512x768",
     " Steps: 5",
     ""}

TextLineSeqs == SeqsUpTo(TextLinePool, MaxLines) \ {<<>>}

InitA1111 ==
    /\ a1111Lines \in TextLineSeqs
    /\ a1111Text = Join(a1111Lines, "\n")
    /\ a1111Result = Pending
    /\ data = Undef
    /\ converted = Pending
    /\ NoParse
    /\ NoStealth
    /\ NoEarlierCall
    /\ NoQueue

ParseText ==
    /\ pc = "idle"
    /\ a1111Lines # <<>>
    /\ a1111Result = Pending
    /\ a1111Result' = parseA1111Format(a1111Text)
    /\ UNCHANGED <<queueVars, a1111Lines, a1111Text, stealthVars, firstOutcome, data, converted,
                   parseVars>>

NextA1111 == ParseText

SpecA1111 == InitA1111 /\ [][NextA1111]_vars

(***************************************************************************)
(* Inputs of parseNAIMetadata                                              *)
(***************************************************************************)
\* Longest chunk stream.
MaxChunks == 3

A1111Text ==
    "1girl, standing\nNegative prompt: lowres, bad anatomy\nSteps: 28, Sampler: Euler a, CFG scale: 7, Seed: 42, Size: 512x768"

\* A chunk as buildPngWithChunks takes it, the length field written for it
\* (the builder writes the length of the data) and, for a chunk made by
\* makeTextChunk, the fields its data was built from.
Chunk(type, chunkData) ==
    [type |-> type, data |-> chunkData, length |-> Len(chunkData),
     written |-> <<>>]

\* The chunk written with the length field n instead.
Declared(c, n) == [c EXCEPT !.length = n]

\* The fields joined by NUL bytes: `${keyword}\0${value}` encoded.
RECURSIVE JoinNul(_)
JoinNul(fields) ==
    IF Len(fields) = 1 THEN Encode(fields[1])
    ELSE Encode(fields[1]) \o <<0>> \o JoinNul(Tail(fields))

\* makeTextChunk, for either text chunk type.
makeTextChunk(type, fields) ==
    [Chunk(type, JoinNul(fields)) EXCEPT !.written = fields]

makeIHDR == Chunk("IHDR", <<0, 0, 0, 1, 0, 0, 0, 1, 8, 6, 0, 0, 0>>)
makeIEND == Chunk("IEND", <<>>)

\* The four bytes (n >> 24) & 0xff, (n >> 16) & 0xff, (n >> 8) & 0xff, n & 0xff.
U32(n) ==
    <<(n \div 16777216) % 256, (n \div 65536) % 256, (n \div 256) % 256, n % 256>>

\* Length, type, data and four CRC bytes, which the builder leaves 0.
EncodeChunk(c) == U32(c.length) \o Encode(c.type) \o c.data \o <<0, 0, 0, 0>>

RECURSIVE EncodeChunks(_)
EncodeChunks(cs) ==
    IF cs = <<>> THEN <<>> ELSE EncodeChunk(Head(cs)) \o EncodeChunks(Tail(cs))

\* The chunks of the long streams.
CoreChunks ==
    {makeIEND,
     makeTextChunk("tEXt", <<"Comment", J_Prompt>>),
     makeTextChunk("tEXt", <<"Comment", "hello">>),
     makeTextChunk("tEXt", <<"parameters", A1111Text>>),
     makeTextChunk("iTXt", <<"Comment", "", "", "", "", J_Custom>>),
     makeTextChunk("tEXt", <<"Source", "nai-diffusion-4-5-full">>),
     makeTextChunk("tEXt", <<"Source", "">>),
     makeTextChunk("tEXt", <<"Title", J_Prompt>>)}

\* Further chunks, of the streams one chunk shorter.
ChunkPool ==
    CoreChunks \cup
    {makeIHDR,
     makeTextChunk("tEXt", <<"Comment", J_Basic>>),
     makeTextChunk("tEXt", <<"Comment", J_Null>>),
     makeTextChunk("tEXt", <<"Comment">>),
     makeTextChunk("iTXt", <<"Source", "", "", "en", "", "">>)}

ChunkStreams ==
    SeqsUpTo(CoreChunks, MaxChunks) \cup SeqsUpTo(ChunkPool, MaxChunks - 1)

\* Streams with a length field that is not the length of the chunk's data:
\* one past the end of the buffer, one with the top bit set that moves the
\* offset forward by less than a chunk header, and two with the top bit set
\* that move the offset back to the first chunk.
CommentChunk == makeTextChunk("tEXt", <<"Comment", J_Prompt>>)
EmptyChunk == Chunk("tIME", <<>>)

DeclaredStreams ==
    {<<Declared(CommentChunk, 1000), makeIEND>>,
     <<Declared(EmptyChunk, -4), CommentChunk, makeIEND>>,
     <<EmptyChunk, Declared(EmptyChunk, -24), makeIEND>>,
     <<CommentChunk, Declared(EmptyChunk, -24 - Len(CommentChunk.data)), makeIEND>>}

\* Every length field is the length of its chunk's data.
WellFormed(cs) == \A i \in 1..Len(cs) : cs[i].length = Len(cs[i].data)

HeadPng == <<137, 80, 78, 71, 13, 10, 26, 10>>
HeadPngPrefix == <<137, 80, 78, 71, 0, 0, 0, 0>>
HeadWebp == <<82, 73, 70, 70, 36, 0, 0, 0, 87, 69, 66, 80>>
HeadRiffWave == <<82, 73, 70, 70, 36, 0, 0, 0, 87, 65, 86, 69>>
HeadJpeg == <<255, 216, 255, 224, 0, 16, 74, 70, 73, 70, 0, 1>>
HeadZeros == <<0, 0, 0, 0>>
Heads == {HeadPng, HeadPngPrefix, HeadWebp, HeadRiffWave, HeadJpeg, HeadZeros}

\* What the pixel loop of extractStealthMetadata can leave behind.
Img(sig, comp, bits, inflates, text) ==
    [sigConfirmed |-> sig, compressed |-> comp, bits |-> bits,
     inflates |-> inflates, text |-> text]

StealthTexts == {J_Basic, J_Wrapped, J_PlainComment, J_Custom, J_Null, J_Five, "hello"}

Imgs ==
    {Img(FALSE, FALSE, 0, FALSE, "")}
    \cup {Img(TRUE, comp, 0, TRUE, "") : comp \in BOOLEAN}
    \cup {Img(TRUE, FALSE, 8 * Len(text), FALSE, text) : text \in StealthTexts}
    \cup {Img(TRUE, TRUE, 320, TRUE, text) : text \in StealthTexts}
    \cup {Img(TRUE, TRUE, 320, FALSE, "")}

\* The collaborators' behaviour: getImageData resolves with a pixel buffer,
\* resolves with null, or rejects.
Envs ==
    {[raster |-> "null"], [raster |-> "throws"]}
    \cup {[raster |-> "data", img |-> img] : img \in Imgs}

SomeEnvs ==
    {[raster |-> "null"], [raster |-> "throws"],
     [raster |-> "data", img |-> Img(TRUE, FALSE, 8 * Len(J_Wrapped), FALSE, J_Wrapped)]}

\* Buffers shorter than the 12 bytes the sniffer looks at: a magic number
\* alone, and a magic number cut short.
ShortHeads ==
    {SubSeq(HeadWebp, 1, 4), SubSeq(HeadWebp, 1, 11), SubSeq(HeadJpeg, 1, 3),
     SubSeq(HeadJpeg, 1, 2), SubSeq(HeadPng, 1, 4), SubSeq(HeadPng, 1, 3)}

\* Buffers of zeros, of lengths up to and beyond the 12 bytes the sniffer
\* looks at; the raster decoder fails on them.
ZeroBuffers == {[i \in 1..n |-> 0] : n \in {0, 1, 8, 12, 16}}

ParseInputs ==
    {<<[head |-> HeadPng, chunks |-> cs], e>> :
        cs \in ChunkStreams \cup DeclaredStreams, e \in SomeEnvs}
    \cup
    {<<[head |-> z, chunks |-> <<>>], e>> :
        z \in ZeroBuffers, e \in {[raster |-> "null"], [raster |-> "throws"]}}
    \cup
    {<<[head |-> h, chunks |-> <<>>], [raster |-> "null"]>> : h \in ShortHeads}
    \cup
    {<<[head |-> h, chunks |-> cs], e>> :
        h \in Heads,
        cs \in {<<>>, <<makeTextChunk("tEXt", <<"Comment", J_Prompt>>), makeIEND>>},
        e \in Envs}

(***************************************************************************)
(* Spec: one call of parseNAIMetadata                                      *)
(***************************************************************************)
InitWith(inputs) ==
    /\ data = Undef
    /\ converted = Pending
    /\ \E in \in inputs :
          /\ bytes = in[1].head \o EncodeChunks(in[1].chunks)
          /\ stream = in[1].chunks
          /\ env = in[2]
    /\ pc = "start"
    /\ imageType = ""
    /\ isPng = FALSE
    /\ offset = 0
    /\ chunkMetadata = Null
    /\ modelSource = Null
    /\ metadata = Null
    /\ calls = {}
    /\ outcome = Pending
    /\ NoA1111
    /\ NoStealth
    /\ NoEarlierCall
    /\ NoQueue

Init == InitWith(ParseInputs)

\* Mutant of ScanStart: the scan resumes where an earlier one stopped.
ScanStart_Resumed(stopped) == IF stopped > 8 THEN stopped ELSE 8

\* let offset = 8: the scan starts at the first chunk, wherever an earlier
\* scan stopped
ScanStart(stopped) == 8

\* detectImageType and the signature loop; on a match the scanner is entered
\* (offset = 8 is the first chunk).
Sniff ==
    /\ pc = "start"
    /\ imageType' = detectImageType(bytes)
    /\ isPng' = (imageType' = "image/png" /\ HasPngSignature(bytes))
    /\ IF isPng'
       THEN pc' = "scan" /\ offset' = ScanStart(offset) /\ calls' = calls \cup {"extractTextChunkMetadata"}
       ELSE pc' = "fallback" /\ UNCHANGED <<offset, calls>>
    /\ UNCHANGED <<queueVars, unitVars, data, converted, bytes, stream, env, chunkMetadata, modelSource,
                   metadata, outcome>>

\* One iteration of the while loop: the chunk at offset.
ScanChunk ==
    /\ pc = "scan"
    /\ offset < Len(bytes)
    /\ LET c == ChunkAt(bytes, offset)
       IN /\ chunkMetadata' = ScanMetadata(chunkMetadata, c)
          /\ modelSource' = ScanModelSource(modelSource, c)
          /\ offset' = offset + 4 + 4 + c.length + 4
          /\ pc' = IF c.type = "IEND" THEN "scanned" ELSE "scan"
    /\ UNCHANGED <<queueVars, unitVars, data, converted, bytes, stream, env, imageType, isPng, metadata,
                   calls, outcome>>

\* The loop condition fails: the buffer is exhausted.
ScanExhausted ==
    /\ pc = "scan"
    /\ offset >= Len(bytes)
    /\ pc' = "scanned"
    /\ UNCHANGED <<queueVars, unitVars, data, converted, bytes, stream, env, imageType, isPng, offset,
                   chunkMetadata, modelSource, metadata, calls, outcome>>

\* The scanner attaches the model name and returns to parseNAIMetadata.
ScanReturn ==
    /\ pc = "scanned"
    /\ chunkMetadata' = AttachModel(chunkMetadata, modelSource)
    /\ metadata' = chunkMetadata'
    /\ pc' = "fallback"
    /\ UNCHANGED <<queueVars, unitVars, data, converted, bytes, stream, env, imageType, isPng, offset,
                   modelSource, calls, outcome>>

\* if (!metadata) { const imgData = await getImageData(bytes) ...
Fallback ==
    /\ pc = "fallback"
    /\ IF NeedsFallback(metadata)
       THEN pc' = "raster" /\ calls' = calls \cup {"getImageData"}
       ELSE pc' = "return" /\ UNCHANGED calls
    /\ UNCHANGED <<queueVars, unitVars, data, converted, bytes, stream, env, imageType, isPng, offset,
                   chunkMetadata, modelSource, metadata, outcome>>

\* getImageData settles; if (imgData) metadata = await extractStealthMetadata(imgData)
Raster ==
    /\ pc = "raster"
    /\ CASE env.raster = "throws" ->
              pc' = "catch" /\ UNCHANGED <<metadata, calls>>
         [] env.raster = "null" ->
              pc' = "return" /\ UNCHANGED <<metadata, calls>>
         [] env.raster = "data" ->
              /\ metadata' = extractStealthMetadata(env.img)
              /\ calls' = calls \cup {"extractStealthMetadata"}
              /\ pc' = "return"
    /\ UNCHANGED <<queueVars, unitVars, data, converted, bytes, stream, env, imageType, isPng, offset,
                   chunkMetadata, modelSource, outcome>>

\* return metadata
Return ==
    /\ pc = "return"
    /\ outcome' = [t |-> "return", v |-> metadata]
    /\ pc' = "done"
    /\ UNCHANGED <<queueVars, unitVars, data, converted, bytes, stream, env, imageType, isPng, offset,
                   chunkMetadata, modelSource, metadata, calls>>

\* The catch clause of parseNAIMetadata.
Catch ==
    /\ pc = "catch"
    /\ outcome' = Caught(Throw)
    /\ pc' = "done"
    /\ UNCHANGED <<queueVars, unitVars, data, converted, bytes, stream, env, imageType, isPng, offset,
                   chunkMetadata, modelSource, metadata, calls>>

Next ==
    \/ Sniff
    \/ ScanChunk
    \/ ScanExhausted
    \/ ScanReturn
    \/ Fallback
    \/ Raster
    \/ Return
    \/ Catch

Spec == Init /\ [][Next]_vars

\* ScanChunk can be taken (its guard holds; the step moves offset).
ScanChunkEnabled == pc = "scan" /\ offset < Len(bytes)

\* The call runs on: a step that can be taken is taken (the scanner's loop is
\* synchronous code, and getImageData settles).  The last conjunct is
\* WF_vars(ScanChunk) with ENABLED <<ScanChunk>>_vars written out.
FairSpec ==
    /\ Spec
    /\ WF_vars(Sniff)
    /\ WF_vars(ScanExhausted)
    /\ WF_vars(ScanReturn)
    /\ WF_vars(Fallback)
    /\ WF_vars(Raster)
    /\ WF_vars(Return)
    /\ WF_vars(Catch)
    /\ ([]<>(~ScanChunkEnabled) \/ []<><<ScanChunk>>_vars)

(***************************************************************************)
(* SpecTwice: two calls of parseNAIMetadata, one after the other, on the   *)
(* same buffer and with the same collaborators.                            *)
(***************************************************************************)
TwiceInputs ==
    {<<[head |-> h, chunks |-> cs], e>> :
        h \in Heads,
        cs \in {<<>>, <<makeTextChunk("tEXt", <<"Comment", J_Prompt>>), makeIEND>>,
                <<makeTextChunk("tEXt", <<"Source", "NovelAI">>),
                  makeTextChunk("tEXt", <<"Comment", J_Prompt>>)>>},
        e \in Envs}

InitTwice == InitWith(TwiceInputs)

\* The caller calls parseNAIMetadata again once the first call has settled:
\* the locals of the new call are at their declarations, and nothing else
\* is touched.
CallAgain ==
    /\ pc = "done"
    /\ firstOutcome = Pending
    /\ firstOutcome' = outcome
    /\ pc' = "start"
    /\ imageType' = ""
    /\ isPng' = FALSE
    /\ chunkMetadata' = Null
    /\ modelSource' = Null
    /\ metadata' = Null
    /\ calls' = {}
    /\ outcome' = Pending
    /\ UNCHANGED <<queueVars, a1111Vars, stealthVars, data, converted, bytes, stream, env,
                   offset>>

NextTwice == Next \/ CallAgain

SpecTwice == InitTwice /\ [][NextTwice]_vars

(***************************************************************************)
(* SpecStealth: one call of extractStealthMetadata, pixel by pixel.        *)
(* bufferA and binaryData are strings of the characters "0" and "1", as in *)
(* the source.                                                             *)
(***************************************************************************)
\* Mutant of getPixelAlpha: the buffer is read as if it were column-major.
getPixelAlpha_Transposed(img, px, py) ==
    ByteAt(img.data, (px * img.height + py) * 4 + 3)

\* const i = (y * width + x) * 4; return data[i + 3]
getPixelAlpha(img, px, py) == ByteAt(img.data, (py * img.width + px) * 4 + 3)

\* (alpha & 1).toString(); undefined & 1 is 0
AlphaBit(alpha) == IF alpha # -1 /\ alpha % 2 = 1 THEN "1" ELSE "0"

sigUncompressed == "stealth_pnginfo"
sigCompressed == "stealth_pngcomp"

\* const sigLen = sigUncompressed.length * 8
sigLen == Len(sigUncompressed) * 8

\* if (indexA === 32): the width of the length field
paramLenBits == 32

\* parseInt(s, 2) of a non-empty string of binary digits
RECURSIVE ParseBinary(_)
ParseBinary(s) ==
    IF Len(s) = 0 THEN 0
    ELSE 2 * ParseBinary(SubSeq(s, 1, Len(s) - 1))
            + (IF CharAt(s, Len(s)) = "1" THEN 1 ELSE 0)

\* Mutant of binaryToBytes: a trailing partial group becomes a byte too.
binaryToBytes_Padded(binStr) ==
    LET padded == binStr \o "0000000"
    IN [i \in 1..((Len(binStr) + 7) \div 8) |->
           ParseBinary(SubSeq(padded, 8 * (i - 1) + 1, 8 * i))]

\* binaryToBytes: one byte for each full group of 8 bits
binaryToBytes(binStr) ==
    [i \in 1..(Len(binStr) \div 8) |->
        ParseBinary(SubSeq(binStr, 8 * (i - 1) + 1, 8 * i))]

\* binaryToString: the same bytes, decoded as text
binaryToString(binStr) ==
    LET d == binaryToBytes(binStr) IN Decode(d, 1, Len(d))

\* The platform's gzip codec, for the payloads of the model: a gzip stream
\* is the magic number and method byte followed by the complemented bytes
\* of the text; the inflater rejects every other buffer.
GzipHeader == <<31, 139, 8>>
Gzip(text) == GzipHeader \o [i \in 1..Len(text) |-> 255 - Encode(text)[i]]
IsGzip(d) ==
    /\ Len(d) >= Len(GzipHeader)
    /\ SubSeq(d, 1, Len(GzipHeader)) = GzipHeader
Gunzip(d) ==
    LET body == SubSeq(d, Len(GzipHeader) + 1, Len(d))
        plain == [i \in 1..Len(body) |-> 255 - body[i]]
    IN Decode(plain, 1, Len(plain))

\* The locals of extractStealthMetadata the loop body reads and writes.
Locals ==
    [bufferA |-> bufferA, indexA |-> indexA, sigConfirmed |-> sigConfirmed,
     confirmingSignature |-> confirmingSignature,
     readingParamLen |-> readingParamLen, readingParam |-> readingParam,
     readEnd |-> readEnd, paramLen |-> paramLen, binaryData |-> binaryData,
     compressed |-> compressed]

\* Mutant of Confirmed: the payload is read straight after the signature.
Confirmed_SkipLength(s, comp) ==
    [s EXCEPT !.confirmingSignature = FALSE, !.sigConfirmed = TRUE,
              !.readingParam = TRUE, !.compressed = comp,
              !.bufferA = "", !.indexA = 0]

\* The branch taken when the signature matched.
Confirmed(s, comp) ==
    [s EXCEPT !.confirmingSignature = FALSE, !.sigConfirmed = TRUE,
              !.readingParamLen = TRUE, !.compressed = comp,
              !.bufferA = "", !.indexA = 0]

\* The body of the inner loop, after   bufferA += bit; indexA++ .
Accumulate(s) ==
    IF s.confirmingSignature
    THEN IF s.indexA = sigLen
         THEN LET sig == binaryToString(s.bufferA)
              IN IF sig = sigUncompressed THEN Confirmed(s, FALSE)
                 ELSE IF sig = sigCompressed THEN Confirmed(s, TRUE)
                 ELSE [s EXCEPT !.readEnd = TRUE]
         ELSE s
    ELSE IF s.readingParamLen
    THEN IF s.indexA = paramLenBits
         THEN [s EXCEPT !.paramLen = ParseBinary(s.bufferA),
                        !.readingParamLen = FALSE, !.readingParam = TRUE,
                        !.bufferA = "", !.indexA = 0]
         ELSE s
    ELSE IF s.readingParam
    THEN IF s.indexA = s.paramLen
         THEN [s EXCEPT !.binaryData = s.bufferA, !.readEnd = TRUE]
         ELSE s
    ELSE s

\* What the loop leaves behind, as the rest of the function sees it.
LoopResult ==
    LET byteData == binaryToBytes(binaryData)
        inflates == gzipAvailable /\ IsGzip(byteData)
    IN Img(sigConfirmed, compressed, Len(binaryData),
           IF compressed THEN inflates ELSE FALSE,
           IF ~compressed THEN Decode(byteData, 1, Len(byteData))
           ELSE IF inflates THEN Gunzip(byteData) ELSE "")

(***************************************************************************)
(* The pixel buffers of SpecStealth.                                       *)
(***************************************************************************)
\* Columns of pixels a buffer has beyond the ones its bit stream fills.
MaxSpare == 1

\* n as a string of w binary digits
RECURSIVE ToBinary(_, _)
ToBinary(n, w) ==
    IF w = 0 THEN ""
    ELSE ToBinary(n \div 2, w - 1) \o (IF n % 2 = 1 THEN "1" ELSE "0")

RECURSIVE BytesToBinary(_)
BytesToBinary(d) ==
    IF d = <<>> THEN "" ELSE ToBinary(d[1], 8) \o BytesToBinary(Tail(d))

\* A stealth bit stream: signature, 32-bit length in bits, payload.
BitStream(sig, len, payload) ==
    BytesToBinary(Encode(sig)) \o ToBinary(len, 32) \o BytesToBinary(payload)

StealthPayloads == {J_Empty, J_Prompt, J_Null, J_Five, "hi"}

\* Streams whose length field is the number of payload bits.
ExactStreams ==
    {BitStream(sigUncompressed, 8 * Len(t), Encode(t)) : t \in StealthPayloads}
    \cup {BitStream(sigCompressed, 8 * Len(Gzip(t)), Gzip(t)) :
             t \in StealthPayloads}

\* Streams whose payload has a Comment field.
CommentStreams ==
    {BitStream(sigUncompressed, 8 * Len(t), Encode(t)) :
        t \in {J_Wrapped, J_BlankComment, J_PlainComment}}

\* Streams with a mismatched signature, with the wrong codec for their
\* signature, and with a length field of 0, of less than a byte, of a
\* byte and a half, and of more than the stream holds.
OddStreams ==
    {BitStream("stealth_pngjunk", 16, Encode(J_Empty)),
     BitStream(sigCompressed, 16, Encode(J_Empty)),
     BitStream(sigUncompressed, 0, Encode(J_Empty)),
     BitStream(sigUncompressed, 4, Encode(J_Empty)),
     BitStream(sigUncompressed, 20, Encode(J_Empty) \o <<255>>),
     BitStream(sigUncompressed, 4096, Encode(J_Empty))}

\* The RGBA buffer of a width x height image that carries the bits of s in
\* the low alpha bits of its pixels, column by column; the pixels after
\* the stream are opaque, and the colour channels are noise.
StealthImage(s, width, height) ==
    [width |-> width, height |-> height,
     data |-> [i \in 1..(width * height * 4) |->
        LET p == (i - 1) \div 4
            k == (p % width) * height + (p \div width)
        IN IF (i - 1) % 4 # 3 THEN (7 * i + k) % 256
           ELSE IF k < Len(s) THEN 254 + ParseBinary(CharAt(s, k + 1))
           ELSE 255]]

StealthHeights == {1, 7}

\* Widths: the stream fits with 0..MaxSpare columns to spare; or it is cut
\* inside the signature, inside the length field, or inside the payload.
Columns(n, height) == (n + height - 1) \div height

\* Widths with which the stream fits, with 0..MaxSpare columns to spare.
StealthWidths(s, height) ==
    {Columns(Len(s), height) + spare : spare \in 0..MaxSpare}

\* Widths with which the stream is cut inside the signature, inside the
\* length field, or inside the payload.
CutWidths(s, height) ==
    {Columns(sigLen, height) - 1, Columns(sigLen + 8, height),
     Columns(Len(s), height) - 1}

CutStreams ==
    {BitStream(sigUncompressed, 8 * Len(J_Prompt), Encode(J_Prompt)),
     BitStream("stealth_pngjunk", 16, Encode(J_Empty))}

StealthImages ==
    UNION {{StealthImage(s, w, h) : w \in StealthWidths(s, h)} :
              <<s, h>> \in (ExactStreams \cup CommentStreams \cup OddStreams) \X StealthHeights}
    \cup
    UNION {{StealthImage(s, w, h) : w \in CutWidths(s, h)} :
              <<s, h>> \in CutStreams \X StealthHeights}

(***************************************************************************)
(* The call.                                                               *)
(***************************************************************************)
InitLocals ==
    /\ x = 0
    /\ y = 0
    /\ bufferA = ""
    /\ indexA = 0
    /\ sigConfirmed = FALSE
    /\ confirmingSignature = TRUE
    /\ readingParamLen = FALSE
    /\ readingParam = FALSE
    /\ readEnd = FALSE
    /\ paramLen = 0
    /\ binaryData = ""
    /\ compressed = FALSE

InitStealth ==
    /\ imageData \in StealthImages
    /\ gzipAvailable \in BOOLEAN
    /\ InitLocals
    /\ bitLog = ""
    /\ stealthPc = "loop"
    /\ stealthResult = Pending
    /\ data = Undef
    /\ converted = Pending
    /\ NoParse
    /\ NoA1111
    /\ NoEarlierCall
    /\ NoQueue

\* One pass through the body of the inner loop.
ReadPixel ==
    /\ stealthPc = "loop"
    /\ x < imageData.width /\ y < imageData.height /\ ~readEnd
    /\ LET bit == AlphaBit(getPixelAlpha(imageData, x, y))
           s == Accumulate([Locals EXCEPT !.bufferA = bufferA \o bit,
                                          !.indexA = indexA + 1])
       IN /\ bufferA' = s.bufferA
          /\ indexA' = s.indexA
          /\ sigConfirmed' = s.sigConfirmed
          /\ confirmingSignature' = s.confirmingSignature
          /\ readingParamLen' = s.readingParamLen
          /\ readingParam' = s.readingParam
          /\ readEnd' = s.readEnd
          /\ paramLen' = s.paramLen
          /\ binaryData' = s.binaryData
          /\ compressed' = s.compressed
          /\ bitLog' = bitLog \o bit
          \* break leaves the loops; otherwise y++, and x++ after the last row
          /\ IF s.readEnd THEN UNCHANGED <<x, y>>
             ELSE IF y + 1 < imageData.height THEN y' = y + 1 /\ UNCHANGED x
             ELSE x' = x + 1 /\ y' = 0
    /\ UNCHANGED <<queueVars, imageData, gzipAvailable, stealthPc, stealthResult,
                   a1111Vars, firstOutcome, data, converted, parseVars>>

\* The loops have ended: the rest of the function, to its return.
EndLoop ==
    /\ stealthPc = "loop"
    /\ readEnd \/ x >= imageData.width \/ imageData.height <= 0
    /\ stealthResult' = extractStealthMetadata(LoopResult)
    /\ stealthPc' = "done"
    /\ UNCHANGED <<queueVars, imageData, gzipAvailable, stealthLocals, bitLog,
                   a1111Vars, firstOutcome, data, converted, parseVars>>

NextStealth == ReadPixel \/ EndLoop

SpecStealth == InitStealth /\ [][NextStealth]_vars

(***************************************************************************)
(* Claims about parseNAIMetadata and the chunk scanner (checked under Spec)*)
(***************************************************************************)
Done == pc = "done"

\* The scanner has returned: chunkMetadata holds its return value.
ScanReturned ==
    "extractTextChunkMetadata" \in calls
        /\ pc \in {"fallback", "raster", "return", "catch", "done"}

\* The loop of the scanner has ended (by IEND or by exhaustion).
ScanEnded == "extractTextChunkMetadata" \in calls /\ pc # "scan"

\* The chunks the scan reads: those up to and including the first IEND.
Visible ==
    LET cs == stream
        iends == {i \in 1..Len(cs) : cs[i].type = "IEND"}
    IN IF iends = {} THEN 1..Len(cs) ELSE 1..Least(iends)

Greatest(S) == CHOOSE i \in S : \A j \in S : i >= j

\* The i-th chunk of the stream as it was written: its type and the
\* NUL-separated fields its data was built from.
Written(i) == [type |-> stream[i].type, fields |-> stream[i].written]

\* The positions of the visible text chunks with one of the keywords ks.
KeywordChunks(ks) ==
    {i \in Visible : IsTextChunk(Written(i)) /\ Keyword(Written(i)) \in ks}

CommentChunks == KeywordChunks({"Comment", "parameters"})
SourceChunks == KeywordChunks({"Source"})

\* The value of the chunk at position i.
ValueAt(i) == ChunkValue(Written(i))

\* m without the model name the scanner attaches at its end.
WithoutModel(m) == IF m = Null THEN Null ELSE [m EXCEPT !.model = Undef]

\* C1: when the chunk scanner returns a non-null result, the call returns
\* that result and neither getImageData nor the stealth decoder is invoked;
\* when the scanner was not run or returned null, getImageData is asked for
\* a pixel buffer and the call returns the stealth decoder's result, or null
\* when getImageData fails (resolves with null or rejects).
C1_ChunkResultHasPriority ==
    Done =>
        IF "extractTextChunkMetadata" \in calls /\ chunkMetadata # Null
        THEN /\ outcome = [t |-> "return", v |-> chunkMetadata]
             /\ "getImageData" \notin calls
             /\ "extractStealthMetadata" \notin calls
        ELSE /\ "getImageData" \in calls
             /\ ("extractStealthMetadata" \in calls) <=> (env.raster = "data")
             /\ outcome = [t |-> "return",
                           v |-> IF env.raster = "data"
                                 THEN extractStealthMetadata(env.img) ELSE Null]

\* C1 witness: the scanner found metadata and a decodable stealth payload was
\* there to be had, yet the chunk result was returned.
C1_Witness ==
    /\ Done
    /\ chunkMetadata # Null
    /\ env.raster = "data"
    /\ extractStealthMetadata(env.img) # Null
    /\ outcome = [t |-> "return", v |-> chunkMetadata]

\* C2 as stated: for every buffer and every behaviour of the collaborators
\* the call completes, with a metadata record or with null (checked under
\* FairSpec).  It fails on a buffer whose length fields send the scanner's
\* offset back to a chunk it has read: the loop never ends.
C2_CompletesWithRecordOrNull ==
    <>(Done /\ outcome.t = "return"
            /\ (outcome.v = Null \/ outcome.v.t = "metadata"))

\* C2, the part that holds: no fault is handed to the caller.  Whatever the
\* buffer and whatever the collaborators do (getImageData rejects, gunzip
\* fails, the payload is not JSON or is null), a call that ends, ends by
\* returning a metadata record or null.
C2_NeverThrows ==
    /\ outcome # Throw
    /\ Done => /\ outcome.t = "return"
               /\ outcome.v = Null \/ outcome.v.t = "metadata"

\* C2 witness: getImageData rejected and the call returned null.
C2_Witness ==
    Done /\ env.raster = "throws" /\ outcome = [t |-> "return", v |-> Null]

\* C3: every non-null result has source set: text_chunk exactly when it is
\* the chunk scanner's result (either dialect), stealth_alpha exactly when it
\* is the stealth decoder's.
C3_SourceNamesCarrier ==
    /\ chunkMetadata # Null => chunkMetadata.source = Str("text_chunk")
    /\ metadata # Null => metadata.source \in {Str("text_chunk"), Str("stealth_alpha")}
    /\ (Done /\ outcome.v # Null) =>
           outcome.v.source =
               IF "extractStealthMetadata" \in calls
               THEN Str("stealth_alpha") ELSE Str("text_chunk")

\* C3 witness: a text-dialect result (no raw payload) returned as text_chunk.
C3_Witness ==
    /\ Done
    /\ outcome.v # Null
    /\ outcome.v.raw = Undef
    /\ outcome.v.source = Str("text_chunk")

\* C4: a returned record that the normalizer built from a decoded payload has
\* raw equal to that payload, whole and unmodified (keys that map to no
\* canonical field included), even when no other canonical field is set:
\* for the stealth carrier the payload is the effective payload of the
\* decoded text, for the chunk carrier it is the parsed value of the chunk
\* the result was derived from.
C4_RawIsThePayload ==
    (Done /\ outcome.v # Null) =>
        IF "extractStealthMetadata" \in calls
        THEN outcome.v.raw = SourceData(ReparseComment(JSONParse(env.img.text)))
        ELSE LET parsed == JSONParse(ValueAt(Greatest(CommentChunks)))
             IN parsed \notin {Throw, Null} => outcome.v.raw = parsed

\* C4 witness: a payload with nothing but an unknown key: the record holds
\* raw (with that key) and source, and no other field.
C4_Witness ==
    /\ Done
    /\ outcome.v # Null
    /\ outcome.v.raw = Mk([customField |-> Str("custom")])
    /\ [outcome.v EXCEPT !.source = Undef, !.raw = Undef] = EmptyMetadata

\* C5: with several Comment/parameters text chunks before IEND, the
\* scanner's metadata is what the last of them yields: the later result
\* replaces the earlier one whole.
C5_LastCommentWins ==
    (ScanEnded /\ WellFormed(stream)) =>
        WithoutModel(chunkMetadata) =
            IF CommentChunks = {} THEN Null
            ELSE CommentMetadata(ValueAt(Greatest(CommentChunks)))

\* C5 witness: two such chunks yielding different records; the scan ended
\* with the later one's.
C5_Witness ==
    /\ ScanEnded
    /\ \E i, j \in CommentChunks :
           /\ i < j
           /\ j = Greatest(CommentChunks)
           /\ CommentMetadata(ValueAt(i)) # Null
           /\ CommentMetadata(ValueAt(j)) # Null
           /\ CommentMetadata(ValueAt(i)) # CommentMetadata(ValueAt(j))
           /\ WithoutModel(chunkMetadata) = CommentMetadata(ValueAt(j))

\* C6 as stated: if the scan yields metadata and a Source chunk occurs before
\* IEND, model is the value of the last Source chunk; without a Source chunk
\* model is absent.
C6_ModelIsLastSource ==
    (ScanReturned /\ WellFormed(stream) /\ chunkMetadata # Null) =>
        chunkMetadata.model =
            IF SourceChunks = {} THEN Undef
            ELSE Str(ValueAt(Greatest(SourceChunks)))

\* C6 amended: if the scan yields metadata and a Source chunk occurs before
\* IEND, model is the value of the last Source chunk PROVIDED THAT VALUE IS
\* NOT EMPTY, wherever the Source chunks stand relative to the chunk the
\* metadata came from; model is absent if the last Source value is empty or
\* no Source chunk occurs.
C6_ModelIsLastNonEmptySource ==
    (ScanReturned /\ WellFormed(stream) /\ chunkMetadata # Null) =>
        chunkMetadata.model =
            IF SourceChunks = {} \/ ValueAt(Greatest(SourceChunks)) = ""
            THEN Undef
            ELSE Str(ValueAt(Greatest(SourceChunks)))

\* C6 witness: two Source chunks with different values, the last one after
\* the Comment chunk, and model is the last one's value.
C6_Witness ==
    /\ ScanReturned
    /\ chunkMetadata # Null
    /\ \E i, j \in SourceChunks, k \in CommentChunks :
           /\ i < k /\ k < j
           /\ j = Greatest(SourceChunks)
           /\ ValueAt(i) # ValueAt(j)
           /\ chunkMetadata.model = Str(ValueAt(j))

(***************************************************************************)
(* Claims about the normalizer (checked under SpecNorm)                    *)
(***************************************************************************)
\* The four negative-prompt sources of d, highest priority first.
NegativeSources(d) ==
    <<OptGet(OptGet(Get(d, "v4_negative_prompt"), "caption"), "base_caption"),
      Get(d, "uc"), Get(d, "negative_prompt"), Get(d, "undesired_content")>>

\* C7 as stated: negativePrompt is taken from the first PRESENT source in the
\* order v4 base caption, uc, negative_prompt, undesired_content (present:
\* the key exists and is not null), and is absent when none is present.
C7_FirstPresentWins ==
    Normalized =>
        LET src == NegativeSources(data)
            present == {i \in 1..4 : ~Nullish(src[i])}
        IN converted.negativePrompt =
               IF present = {} THEN Undef ELSE Str(ToStr(src[Least(present)]))

\* C7 amended: negativePrompt is String() of the first TRUTHY source in the
\* order v4 base caption, uc, negative_prompt, undesired_content (a present
\* but empty, zero, false or null source is skipped like an absent one); a
\* lower-priority source never overrides a truthy higher-priority one, and
\* negativePrompt is absent when none of the four is truthy.
C7_FirstTruthyWins ==
    Normalized =>
        LET src == NegativeSources(data)
            truthy == {i \in 1..4 : Truthy(src[i])}
        IN converted.negativePrompt =
               IF truthy = {} THEN Undef ELSE Str(ToStr(src[Least(truthy)]))

\* C7 witness: the V4 base caption and uc are both given and the V4 one won.
C7_Witness ==
    /\ Normalized
    /\ Truthy(NegativeSources(data)[1])
    /\ Truthy(NegativeSources(data)[2])
    /\ NegativeSources(data)[1] # NegativeSources(data)[2]
    /\ converted.negativePrompt = NegativeSources(data)[1]

\* C8: for each of steps, scale, cfg_rescale, seed, width, height the
\* canonical field is set, to Number(value), if and only if the source value
\* is truthy; a present 0, null or "" leaves the field unset.
C8_NumericSetIffTruthy ==
    Normalized =>
        \A k \in NumericKeys :
            LET v == Get(data, k)
                f == converted[NumericTarget(k)]
            IN /\ (f # Undef) <=> Truthy(v)
               /\ Truthy(v) => f = ToNum(v)
               /\ v \in {Num(0), Null, Str("")} => f = Undef

\* C8 witness: seed: 0 next to steps: 28 -- seed stays unset, steps is 28.
C8_Witness ==
    /\ Normalized
    /\ Get(data, "seed") = Num(0) /\ converted.seed = Undef
    /\ Get(data, "steps") = Num(28) /\ converted.steps = Num(28)

\* C9: variety is true exactly when skip_cfg_above_sigma is present and not
\* null, whatever its value; otherwise variety is unset; it is never false.
C9_VarietyIffPresent ==
    Normalized =>
        LET v == Get(data, "skip_cfg_above_sigma")
        IN /\ converted.variety =
                  IF v # Undef /\ v # Null THEN Bool(TRUE) ELSE Undef
           /\ converted.variety # Bool(FALSE)

\* C9 witness: skip_cfg_above_sigma: 0 yields variety = true.
C9_Witness ==
    /\ Normalized
    /\ Get(data, "skip_cfg_above_sigma") = Num(0)
    /\ converted.variety = Bool(TRUE)

\* The two (primary, secondary) source pairs and the fields they feed.
ReferencePairs ==
    {[primary |-> "reference_strength_multiple",
      secondary |-> "reference_information_extracted_multiple",
      has |-> "hasVibeTransfer", info |-> "vibeTransferInfo"],
     [primary |-> "director_reference_strengths",
      secondary |-> "director_reference_secondary_strengths",
      has |-> "hasCharacterReference", info |-> "characterReferenceInfo"]}

\* With Default(s, j) the informationExtracted expected at 1-based index j:
\* a non-empty primary list of length n gives has = true and n entries
\* {strength: primary[j], informationExtracted: Default(secondary, j)};
\* anything else leaves both fields unset.
ReferenceRule(pair, Default(_, _)) ==
    LET p == Get(data, pair.primary)
        s == Get(data, pair.secondary)
    IN IF p.t = "array" /\ Len(p.a) > 0
       THEN /\ converted[pair.has] = Bool(TRUE)
            /\ converted[pair.info].t = "array"
            /\ Len(converted[pair.info].a) = Len(p.a)
            /\ \A j \in 1..Len(p.a) :
                   converted[pair.info].a[j] =
                       [strength |-> p.a[j], informationExtracted |-> Default(s, j)]
       ELSE converted[pair.has] = Undef /\ converted[pair.info] = Undef

\* secondary[j] where the secondary list has an entry j, else 1.0
EntryOrOne(s, j) ==
    IF s.t = "array" /\ j <= Len(s.a) THEN s.a[j] ELSE Num(1)

\* secondary[j] where the secondary list has a non-null entry j, else 1.0
NonNullEntryOrOne(s, j) ==
    IF s.t = "array" /\ j <= Len(s.a) /\ s.a[j] # Null THEN s.a[j] ELSE Num(1)

\* C10 as stated: informationExtracted is the secondary list's entry, and is
\* 1.0 only where the secondary list is shorter or absent.
C10_SecondaryEntryOrDefault ==
    Normalized => \A pair \in ReferencePairs : ReferenceRule(pair, EntryOrOne)

\* C10 amended: a non-empty primary list of length n sets the has-flag and
\* exactly n entries {strength: primary[i], informationExtracted:
\* secondary[i]}, with informationExtracted = 1.0 for every index where the
\* secondary list is shorter or absent OR ITS ENTRY IS NULL; an absent or
\* empty primary list sets neither field; both pairs follow the same rule.
C10_SecondaryNonNullEntryOrDefault ==
    Normalized => \A pair \in ReferencePairs : ReferenceRule(pair, NonNullEntryOrOne)

\* C10 witness: two strengths and a one-entry secondary list whose entry is
\* 0: the first entry keeps the 0, the second defaults to 1.0.
C10_Witness ==
    /\ Normalized
    /\ Get(data, "reference_strength_multiple").t = "array"
    /\ Len(Get(data, "reference_strength_multiple").a) = 2
    /\ Get(data, "reference_information_extracted_multiple") = Arr(<<Num(0)>>)
    /\ converted.hasVibeTransfer = Bool(TRUE)
    /\ converted.vibeTransferInfo.a[1].informationExtracted = Num(0)
    /\ converted.vibeTransferInfo.a[2].informationExtracted = Num(1)

(***************************************************************************)
(* Claims about parseA1111Format (checked under SpecA1111)                 *)
(***************************************************************************)
\* parseA1111Format has returned.
TextParsed == a1111Result # Pending

\* The positions of the lines of the text that begin with a marker.
NegativeLines ==
    {i \in 1..Len(a1111Lines) : StartsWith(a1111Lines[i], "Negative prompt:")}
StepsLines == {i \in 1..Len(a1111Lines) : StartsWith(a1111Lines[i], "Steps:")}

\* C11 as stated: the parser returns null if and only if the text holds
\* neither a line beginning with "Negative prompt:" nor a line beginning with
\* "Steps:"; every text with a marker line, whatever its number of lines,
\* yields a record.
C11_NullIffNoMarker ==
    TextParsed =>
        (a1111Result = Null <=> (NegativeLines = {} /\ StepsLines = {}))

\* C11 amended: the parser returns null if and only if the text has FEWER
\* THAN TWO LINES or holds neither a line beginning with "Negative prompt:"
\* nor a line beginning with "Steps:".
C11_NullIffOneLineOrNoMarker ==
    TextParsed =>
        (a1111Result = Null <=>
            (Len(a1111Lines) < 2 \/ (NegativeLines = {} /\ StepsLines = {})))

\* C11 witness: two lines or more, a negative marker and no Steps line, and
\* the parser returned a record.
C11_Witness ==
    /\ TextParsed
    /\ Len(a1111Lines) >= 2
    /\ NegativeLines # {}
    /\ StepsLines = {}
    /\ a1111Result # Null

\* A line without a leading "Negative prompt: ".
StripNegativeMarker(line) ==
    IF StartsWith(line, "Negative prompt: ")
    THEN SubSeq(line, Len("Negative prompt: ") + 1, Len(line))
    ELSE line

\* C12 as stated: negStart is the FIRST line beginning with
\* "Negative prompt:" and paramsStart the first line beginning with "Steps:";
\* prompt is the lines before promptEnd (negStart if present, else
\* paramsStart) joined by newlines, absent when there are none; with both
\* markers negativePrompt is the lines from negStart up to paramsStart joined
\* by newlines, the leading "Negative prompt: " removed from the first; with
\* one marker it is absent.  (Texts whose first negative marker stands after
\* the Steps line are left out: the claim gives them an empty range.)
C12_FirstNegativeLineStartsNegative ==
    LET negStart == IF NegativeLines = {} THEN 0 ELSE Least(NegativeLines)
        paramsStart == IF StepsLines = {} THEN 0 ELSE Least(StepsLines)
        promptEnd == IF negStart # 0 THEN negStart ELSE paramsStart
    IN (TextParsed /\ a1111Result # Null
            /\ (negStart = 0 \/ paramsStart = 0 \/ negStart < paramsStart)) =>
          /\ a1111Result.prompt =
                IF promptEnd > 1
                THEN Str(Join(SubSeq(a1111Lines, 1, promptEnd - 1), "\n"))
                ELSE Undef
          /\ a1111Result.negativePrompt =
                IF negStart # 0 /\ paramsStart # 0
                THEN Str(Join(<<StripNegativeMarker(a1111Lines[negStart])>>
                                 \o SubSeq(a1111Lines, negStart + 1, paramsStart - 1),
                              "\n"))
                ELSE Undef
(***************************************************************************)
(* Claims about extractStealthMetadata (checked under SpecStealth)         *)
(***************************************************************************)
StealthDone == stealthPc = "done"

\* The low bit of the byte at index i of the pixel buffer, as a digit.
LowBitAt(i) == IF imageData.data[i + 1] % 2 = 1 THEN "1" ELSE "0"

\* C13: the decoder reads alpha bits in column-major order: the k-th bit
\* appended to the bit string (k from 0) is the least-significant bit of the
\* alpha byte of the pixel at x = k div height, y = k mod height, the byte
\* at index ((k mod height) * width + (k div height)) * 4 + 3 of the buffer.
C13_ColumnMajorBits ==
    [][bitLog' # bitLog =>
          LET k == Len(bitLog)
          IN bitLog' = bitLog \o
                LowBitAt(((k % imageData.height) * imageData.width
                            + (k \div imageData.height)) * 4 + 3)]_vars

\* C13 witness: a payload was decoded from an image of 7 rows and more than
\* 7 columns, so the bits read span several columns.
C13_Witness ==
    /\ StealthDone
    /\ stealthResult # Null
    /\ imageData.height = 7
    /\ imageData.width > 7
    /\ Len(bitLog) > sigLen + paramLenBits

\* The phase of the bit accumulator.
Phase ==
    IF readEnd THEN "done"
    ELSE IF confirmingSignature THEN "confirming_signature"
    ELSE IF readingParamLen THEN "reading_length"
    ELSE IF readingParam THEN "reading_payload"
    ELSE "none"

\* Exactly one of the three reading flags is set.
OneFlag ==
    Cardinality({f \in {"c", "l", "p"} :
        \/ f = "c" /\ confirmingSignature
        \/ f = "l" /\ readingParamLen
        \/ f = "p" /\ readingParam}) = 1

\* The bits that spell a signature.
Spelling(sig) == BytesToBinary(Encode(sig))

\* The phase agrees with the number of bits consumed.
PhaseOK ==
    /\ OneFlag
    /\ Phase = "confirming_signature" => Len(bitLog) < 120
    /\ Phase = "reading_length" => Len(bitLog) \in 120..(120 + 32 - 1)
    /\ Phase = "reading_payload" => Len(bitLog) >= 120 + 32
    /\ Phase = "done" => Len(bitLog) >= 120
    /\ sigConfirmed <=> ~confirmingSignature

\* The phase changes a pixel step may make.
PhaseSteps ==
    {<<"confirming_signature", "confirming_signature">>,
     <<"confirming_signature", "reading_length">>,
     <<"confirming_signature", "done">>,
     <<"reading_length", "reading_length">>,
     <<"reading_length", "reading_payload">>,
     <<"reading_payload", "reading_payload">>,
     <<"reading_payload", "done">>,
     <<"done", "done">>}

\* C14: during one decode call the accumulator is in exactly one of the
\* phases confirming_signature, reading_length, reading_payload, done at
\* every pixel step, and the phases are entered only in that order:
\* confirming_signature consumes exactly 120 bits and leads to
\* reading_length only if they spell stealth_pnginfo (uncompressed) or
\* stealth_pngcomp (compressed), with the compression flag set accordingly;
\* reading_length consumes exactly the next 32 bits.
C14_PhasesInOrder ==
    [][stealthPc = "loop" =>
          /\ PhaseOK
          /\ PhaseOK'
          /\ <<Phase, Phase'>> \in PhaseSteps
          /\ IF Phase = "confirming_signature" /\ Phase' = "reading_length"
             THEN \/ bitLog' = Spelling("stealth_pnginfo") /\ ~compressed'
                  \/ bitLog' = Spelling("stealth_pngcomp") /\ compressed'
             ELSE compressed' = compressed]_vars

\* C14 witness: a call went through all four phases on the compressed
\* signature and decoded a payload.
C14_Witness ==
    /\ StealthDone
    /\ Phase = "done"
    /\ compressed
    /\ Len(bitLog) > 120 + 32
    /\ stealthResult # Null

\* What the pixel buffer carries, read off the bits the traversal met.
Pixels == imageData.width * imageData.height
SignatureBits == SubSeq(bitLog, 1, 120)
SignatureMatches ==
    Pixels >= 120 /\ SignatureBits \in {Spelling("stealth_pnginfo"),
                                        Spelling("stealth_pngcomp")}
SignatureMismatch == Pixels >= 120 /\ ~SignatureMatches
CarriesCompressed == SignatureBits = Spelling("stealth_pngcomp")
DeclaredLength == ParseBinary(SubSeq(bitLog, 120 + 1, 120 + 32))
Truncated ==
    \/ Pixels < 120
    \/ SignatureMatches /\ Pixels < 120 + 32
    \/ SignatureMatches /\ Pixels < 120 + 32 + DeclaredLength
PayloadBytes ==
    binaryToBytes(SubSeq(bitLog, 120 + 32 + 1, 120 + 32 + DeclaredLength))
CarriesPayload == SignatureMatches /\ ~Truncated /\ DeclaredLength > 0
InflateFails ==
    CarriesPayload /\ CarriesCompressed /\ ~(gzipAvailable /\ IsGzip(PayloadBytes))
PayloadText ==
    IF CarriesCompressed THEN Gunzip(PayloadBytes)
    ELSE Decode(PayloadBytes, 1, Len(PayloadBytes))
InvalidJson ==
    CarriesPayload /\ ~InflateFails /\ JSONParse(PayloadText) = Throw

\* C15: the decoder yields null and throws nothing in every failure case:
\* the first 120 bits match neither signature (and the traversal stops at
\* bit 120), the pixel buffer holds fewer than 120 + 32 + L bits for the
\* declared length L (fewer than 120 pixels included), the inflater fails
\* on a compressed payload, or the decoded text is not valid JSON.
C15_FailuresYieldNull ==
    StealthDone =>
        /\ stealthResult # Throw
        /\ SignatureMismatch => stealthResult = Null /\ Len(bitLog) = 120
        /\ Truncated => stealthResult = Null
        /\ InflateFails => stealthResult = Null
        /\ InvalidJson => stealthResult = Null

\* C15 witness: a compressed payload was read in full, the inflater failed
\* on it, and the call returned null.
C15_Witness ==
    /\ StealthDone
    /\ InflateFails
    /\ binaryData # ""
    /\ Pixels > 120 + 32 + DeclaredLength
    /\ stealthResult = Null

\* The buffer carried a payload whose text is JSON.
CarriesJson == CarriesPayload /\ ~InflateFails /\ ~InvalidJson

\* The two results are records that differ in nothing but the source tag.
SameButSource(stealth, chunk) ==
    /\ stealth # Null
    /\ chunk # Null
    /\ stealth.source = Str("stealth_alpha")
    /\ chunk.source = Str("text_chunk")
    /\ [stealth EXCEPT !.source = Undef] = [chunk EXCEPT !.source = Undef]

\* C16 as stated: for every JSON payload P, decoding P from a stealth bit
\* stream gives a record equal, field for field, to the one the chunk
\* scanner makes of a Comment chunk whose value is the text of P, but for
\* the source tag.
C16_SameAsCommentChunk ==
    (StealthDone /\ CarriesJson) =>
        SameButSource(stealthResult, CommentMetadata(PayloadText))

\* C16 amended: the same, for every JSON payload other than null that has
\* no Comment field or a falsy one.
C16_SameAsCommentChunkWithoutComment ==
    (StealthDone /\ CarriesJson /\ JSONParse(PayloadText) # Null
        /\ ~Truthy(Get(JSONParse(PayloadText), "Comment"))) =>
        SameButSource(stealthResult, CommentMetadata(PayloadText))

\* C16 witness: a compressed payload with a prompt was decoded.
C16_Witness ==
    /\ StealthDone
    /\ CarriesJson
    /\ CarriesCompressed
    /\ PayloadText = J_Prompt
    /\ stealthResult # Null
    /\ stealthResult.prompt = Str("test")
    /\ SameButSource(stealthResult, CommentMetadata(PayloadText))

(***************************************************************************)
(* Claims about buffers without metadata (checked under Spec)              *)
(***************************************************************************)
\* The raster decoder fails on the buffer: getImageData resolves with null
\* or rejects.
RasterFails == env.raster \in {"null", "throws"}

ReturnedNull == outcome = [t |-> "return", v |-> Null]

\* The buffer begins with the 8 bytes of the PNG signature.
BeginsWithPngSignature ==
    Len(bytes) >= 8 /\ SubSeq(bytes, 1, 8) = <<137, 80, 78, 71, 13, 10, 26, 10>>

\* C18 as stated: for every buffer that is not an image (the raster decoder
\* fails on it; all-zero bytes of any length, for one), the call returns
\* null.
C18_NonImageYieldsNull ==
    (Done /\ RasterFails) => ReturnedNull

\* C18 amended: the same for every such buffer that does not begin with
\* the 8-byte PNG signature.
C18_UnsignedNonImageYieldsNull ==
    (Done /\ RasterFails /\ ~BeginsWithPngSignature) => ReturnedNull

\* C18 witness: 16 bytes of zeros were sent to the raster decoder, it
\* failed, and the call returned null.
C18_Witness ==
    /\ Done
    /\ RasterFails
    /\ bytes = [i \in 1..16 |-> 0]
    /\ "getImageData" \in calls
    /\ ReturnedNull

\* The buffer is the PNG signature followed by chunks whose length fields
\* are right, an IEND among them, and none of the chunks up to the first
\* IEND is a tEXt or iTXt chunk.
TextlessPng ==
    /\ BeginsWithPngSignature
    /\ WellFormed(stream)
    /\ \E i \in 1..Len(stream) : stream[i].type = "IEND"
    /\ \A i \in Visible : stream[i].type \notin {"tEXt", "iTXt"}

\* C19 as stated: for every well-formed PNG buffer with no tEXt or iTXt
\* chunk before IEND, the call returns null.
C19_TextlessPngYieldsNull ==
    (Done /\ TextlessPng) => ReturnedNull

\* C19 amended: for every such buffer the call returns what the stealth
\* decoder recovers from the decoded pixel buffer, and null when the raster
\* decoder fails.
C19_TextlessPngYieldsStealthResult ==
    (Done /\ TextlessPng) =>
        outcome = [t |-> "return",
                   v |-> IF RasterFails THEN Null
                         ELSE extractStealthMetadata(env.img)]

\* C19 witness: a PNG without text chunks whose alpha channel carries a
\* payload; the call returned the stealth decoder's record.
C19_Witness ==
    /\ Done
    /\ TextlessPng
    /\ stream[1].type = "IHDR"
    /\ ~RasterFails
    /\ outcome.t = "return"
    /\ outcome.v # Null
    /\ outcome.v.source = Str("stealth_alpha")

\* The sniffer has run: imageType holds what it returned.
Sniffed == pc \notin {"idle", "start"}

\* Bytes 0..3 are "RIFF" and bytes 8..11 are "WEBP".
MagicWebp ==
    /\ Len(bytes) >= 12
    /\ SubSeq(bytes, 1, 4) = <<82, 73, 70, 70>>
    /\ SubSeq(bytes, 9, 12) = <<87, 69, 66, 80>>

\* Bytes 0..2 are FF D8 FF.
MagicJpeg == Len(bytes) >= 3 /\ SubSeq(bytes, 1, 3) = <<255, 216, 255>>

\* C20: the sniffer is a total classification: it returns image/webp iff
\* bytes 0..3 are "RIFF" and bytes 8..11 are "WEBP", image/jpeg iff bytes
\* 0..2 are FF D8 FF, and image/png for every other buffer, those that match
\* no magic number and those shorter than 12 bytes included.
C20_SnifferIsTotal ==
    Sniffed =>
        /\ imageType \in {"image/png", "image/webp", "image/jpeg"}
        /\ imageType = "image/webp" <=> MagicWebp
        /\ imageType = "image/jpeg" <=> MagicJpeg
        /\ imageType = "image/png" <=> (~MagicWebp /\ ~MagicJpeg)

\* C20 witness: a RIFF container that is not WebP was classified as PNG.
C20_Witness ==
    /\ Sniffed
    /\ Len(bytes) >= 12
    /\ SubSeq(bytes, 1, 4) = <<82, 73, 70, 70>>
    /\ ~MagicWebp
    /\ imageType = "image/png"

ScannerRun == "extractTextChunkMetadata" \in calls

\* C21: the chunk scanner is run if and only if the first 8 bytes of the
\* buffer are the PNG signature; a buffer sniffed as WebP or JPEG, and one
\* classified PNG by the default or by a partial prefix, is never scanned
\* and goes straight to the pixel-buffer fallback.
C21_ScannedIffSigned ==
    Sniffed =>
        /\ ScannerRun <=> BeginsWithPngSignature
        /\ ~BeginsWithPngSignature =>
              /\ pc \in {"fallback", "raster", "return", "catch", "done"}
              /\ chunkMetadata = Null
              /\ (pc # "fallback" => "getImageData" \in calls)

\* C21 witness: a buffer with the PNG magic number but not the full
\* signature went to the raster decoder without a scan.
C21_Witness ==
    /\ Done
    /\ Len(bytes) >= 8
    /\ SubSeq(bytes, 1, 4) = <<137, 80, 78, 71>>
    /\ ~BeginsWithPngSignature
    /\ imageType = "image/png"
    /\ ~ScannerRun
    /\ "getImageData" \in calls

\* C22: the chunk scanner terminates on every buffer: whatever the 4-byte
\* length fields are (top bit set, or more than the buffer holds), each
\* iteration of the loop moves the offset strictly forward, by 12 + L, so
\* the scan ends after finitely many chunks.
C22_ScanStrictlyAdvances ==
    [][(pc = "scan" /\ pc' \in {"scan", "scanned"} /\ offset < Len(bytes)) =>
          offset' > offset]_vars

\* The offset of the i-th chunk of the stream in the buffer.
RECURSIVE ChunkStart(_)
ChunkStart(i) ==
    IF i = 1 THEN 8 ELSE ChunkStart(i - 1) + 12 + Len(stream[i - 1].data)

\* The positions of the chunks that start at the offset (one or none).
ChunksAtOffset == {i \in 1..Len(stream) : ChunkStart(i) = offset}

\* C23: the scanner walks the chunks in stream order from offset 8 and
\* stops after the first IEND chunk: text chunks after the first IEND never
\* influence the result, and a chunk of another type or with another keyword
\* leaves the pending metadata and the pending model name unchanged.
C23_StopsAtFirstIend ==
    [][(pc = "scan" /\ pc' \in {"scan", "scanned"} /\ offset < Len(bytes)
            /\ WellFormed(stream)) =>
          \E i \in ChunksAtOffset :
              /\ i \in Visible
              /\ offset' = ChunkStart(i + 1)
              /\ pc' = "scanned" <=> stream[i].type = "IEND"
              /\ i \notin CommentChunks => chunkMetadata' = chunkMetadata
              /\ i \notin SourceChunks => modelSource' = modelSource]_vars

\* C23 witness: the scan ended on an IEND chunk that a Comment chunk
\* follows, with a Title chunk before it, and found nothing.
C23_Witness ==
    /\ pc = "scanned"
    /\ WellFormed(stream)
    /\ Len(stream) = 3
    /\ stream[1] = makeTextChunk("tEXt", <<"Title", J_Prompt>>)
    /\ stream[2].type = "IEND"
    /\ stream[3] = makeTextChunk("tEXt", <<"Comment", J_Prompt>>)
    /\ offset = ChunkStart(3)
    /\ chunkMetadata = Null
    /\ modelSource = Null

\* m with the scanner's source tag, if m is a record.
Tagged(m) ==
    IF m \in {Null, Throw} THEN m ELSE [m EXCEPT !.source = Str("text_chunk")]

\* C24: for a Comment or parameters chunk the text-dialect parser is run on
\* the value exactly when parsing the value as JSON fails; when the value
\* parses, the recorded result is the normalizer's output for the parsed
\* payload and the text-dialect parser is not run.  In both cases a
\* non-null outcome is tagged source = text_chunk.
C24_TextParserOnlyOnParseFailure ==
    [][(pc = "scan" /\ pc' \in {"scan", "scanned"} /\ offset < Len(bytes)
            /\ WellFormed(stream)) =>
          \A i \in ChunksAtOffset \cap CommentChunks :
              LET parsed == JSONParse(ValueAt(i))
              IN IF parsed = Throw
                 THEN chunkMetadata' = Tagged(parseA1111Format(ValueAt(i)))
                 ELSE /\ chunkMetadata' # Null
                      /\ chunkMetadata' = Tagged(convertNAIFormat(parsed))]_vars

(***************************************************************************)
(* Claims about the directly mapped keys (checked under SpecNorm)          *)
(***************************************************************************)
\* The source value is present and neither null nor empty.
PresentNonEmpty(v) == v \notin {Undef, Null, Str("")}

\* C25 as stated: one and the same guard is applied to all twelve directly
\* mapped keys, whatever the type of the value: sm, sm_dyn, qualityToggle
\* and ucPreset are set for any present non-null value, and a present
\* ucPreset of 0 is treated like a present seed of 0.
C25_OneGuardForAllKeys ==
    Normalized =>
        /\ \A k1, k2 \in DirectKeys :
              Get(data, k1) = Get(data, k2) =>
                  (converted[DirectTarget(k1)] # Undef
                      <=> converted[DirectTarget(k2)] # Undef)
        /\ \A k \in {"sm", "sm_dyn", "qualityToggle", "ucPreset"} :
              PresentNonEmpty(Get(data, k)) => converted[DirectTarget(k)] # Undef

\* C25 amended: steps, scale, cfg_rescale, seed, width, height, sampler and
\* noise_schedule are set exactly when the source value is truthy; smea,
\* smeaDyn and qualityToggle are set, to the value, exactly when it is a
\* boolean (false included); ucPreset is set, to the value, exactly when it
\* is a number (0 included).
C25_GuardByKind ==
    Normalized =>
        /\ \A k \in NumericKeys \cup {"sampler", "noise_schedule"} :
              converted[DirectTarget(k)] # Undef <=> Truthy(Get(data, k))
        /\ \A k \in {"sm", "sm_dyn", "qualityToggle"} :
              converted[DirectTarget(k)] =
                  IF Get(data, k) \in {Bool(TRUE), Bool(FALSE)}
                  THEN Get(data, k) ELSE Undef
        /\ converted.ucPreset =
              IF \E n \in {0, 3} : Get(data, "ucPreset") = Num(n)
              THEN Get(data, "ucPreset") ELSE Undef

\* C25 witness: ucPreset: 0 next to seed: 0 -- ucPreset is set to 0 and
\* seed stays unset.
C25_Witness ==
    /\ Normalized
    /\ Get(data, "ucPreset") = Num(0) /\ converted.ucPreset = Num(0)
    /\ Get(data, "seed") = Num(0) /\ converted.seed = Undef

(***************************************************************************)
(* Claims about the length field (checked under SpecStealth)               *)
(***************************************************************************)
\* The value of a string of binary digits, most significant digit first.
RECURSIVE BigEndian(_)
BigEndian(b) ==
    IF b = "" THEN 0
    ELSE (IF CharAt(b, 1) = "1" THEN 2 ^ (Len(b) - 1) ELSE 0)
            + BigEndian(SubSeq(b, 2, Len(b)))

LengthField == SubSeq(bitLog, 120 + 1, 120 + 32)
PayloadBit(k) == CharAt(bitLog, 120 + 32 + k)

\* C26: after a confirmed signature the 32 bits of the length field are
\* read as a big-endian unsigned integer L that counts payload bits; for
\* L >= 1 the decoder examines no pixel after number 120 + 32 + L, and
\* when the buffer holds that many pixels it reads exactly the L payload
\* bits and converts them to floor(L / 8) bytes, the trailing L mod 8 bits
\* being discarded.
C26_LengthCountsBits ==
    (StealthDone /\ SignatureMatches /\ Pixels >= 120 + 32) =>
        /\ paramLen = BigEndian(LengthField)
        /\ paramLen >= 1 =>
              /\ Len(bitLog) <= 120 + 32 + paramLen
              /\ Pixels >= 120 + 32 + paramLen =>
                    LET byteData == binaryToBytes(binaryData)
                    IN /\ Len(bitLog) = 120 + 32 + paramLen
                       /\ readEnd
                       /\ Len(binaryData) = paramLen
                       /\ \A k \in 1..paramLen : CharAt(binaryData, k) = PayloadBit(k)
                       /\ Len(byteData) = paramLen \div 8
                       /\ \A i \in 1..Len(byteData) :
                             byteData[i] =
                                 BigEndian(SubSeq(binaryData, 8 * i - 7, 8 * i))

\* C26 witness: a length field of 20 in a buffer with pixels to spare; the
\* traversal stopped at pixel 172 and the 2 bytes of the payload gave a
\* record.
C26_Witness ==
    /\ StealthDone
    /\ SignatureMatches
    /\ paramLen = 20
    /\ Pixels > 120 + 32 + 20
    /\ Len(bitLog) = 120 + 32 + 20
    /\ Len(binaryToBytes(binaryData)) = 2
    /\ stealthResult \notin {Null, Throw, Pending}

(***************************************************************************)
(* Claims about the Comment field of a stealth payload (SpecStealth)       *)
(***************************************************************************)
\* The Comment field of the payload is a string that holds JSON text.
JsonEncodedComment(p) ==
    /\ ~Nullish(p)
    /\ Get(p, "Comment").t = "string"
    /\ JSONParse(Get(p, "Comment").s) # Throw

\* The effective payload of the specification: the re-parsed Comment when
\* it is a JSON-encoded string, the decoded payload itself otherwise.
EffectivePayload(p) ==
    IF JsonEncodedComment(p) THEN JSONParse(Get(p, "Comment").s) ELSE p

\* The record the decoder returns when q is what it hands to the normaliser.
StealthRecordOf(q) ==
    LET m == convertNAIFormat(q)
    IN IF m = Throw THEN Null ELSE [m EXCEPT !.source = Str("stealth_alpha")]

\* C27: the effective payload handed to the normaliser is the re-parsed
\* Comment exactly when the decoded payload has a Comment field that is a
\* JSON-encoded string; in every other case (Comment absent, not a string,
\* or a string that is not valid JSON) it is the decoded payload itself.
C27_CommentUsedOnlyWhenJsonEncoded ==
    (StealthDone /\ CarriesJson) =>
        stealthResult = StealthRecordOf(EffectivePayload(JSONParse(PayloadText)))

\* A payload whose Comment is a JSON-encoded string was decoded, and the
\* record is the one of the re-parsed Comment.
C27_ReparsedCommentReached ==
    /\ StealthDone
    /\ CarriesJson
    /\ JsonEncodedComment(JSONParse(PayloadText))
    /\ stealthResult.prompt = Str("inner")

(***************************************************************************)
(* Claims about a scan that ends without a record (checked under Spec)     *)
(***************************************************************************)
\* The Comment/parameters chunks before IEND whose value yields a record.
YieldingChunks == {i \in CommentChunks : CommentMetadata(ValueAt(i)) # Null}

\* C28: the scanner reports no result only if no Comment/parameters chunk
\* before IEND yielded metadata: once such a chunk has produced a record,
\* no later chunk of the stream turns the result back into no result.
C28_NullOnlyIfNothingYielded ==
    (ScanEnded /\ WellFormed(stream) /\ chunkMetadata = Null) => YieldingChunks = {}

\* A chunk that yields a record was followed by one that does not, and
\* the scan ended without a record.
C28_RecordLost ==
    /\ ScanEnded
    /\ WellFormed(stream)
    /\ YieldingChunks # {}
    /\ Greatest(CommentChunks) \notin YieldingChunks
    /\ chunkMetadata = Null

(***************************************************************************)
(* The generation queue (server/services/generation.ts).                   *)
(*                                                                         *)
(* The server runs on one thread: a call of enqueueJob or                  *)
(* cancelPendingJobs, and every stretch of processQueue / processJob       *)
(* between two awaits, runs to its end before anything else does.  Each    *)
(* action below is one such stretch.  batchTiming keeps its two image      *)
(* counters; its clock readings are left out.                              *)
(***************************************************************************)
\* The jobs created in a run.
MaxJobs == 3

JobIds == 1..MaxJobs
\* The totalCount of a job: one image, or more than one.
Counts == {1, 2}

\* A job id without a row in generationJobs.
NoRow == [status |-> "none", totalCount |-> 0, completedCount |-> 0]

\* The row createGenerationJob and retryJob insert before they enqueue.
NewRow(count) == [status |-> "pending", totalCount |-> count, completedCount |-> 0]

Terminal == {"completed", "failed", "cancelled"}

\* db.update(generationJobs).set({ status }).where(eq(id)): no row, no change
SetStatus(t, id, s) ==
    IF t[id] = NoRow THEN t ELSE [t EXCEPT ![id].status = s]

\* db.update(generationJobs).set({ completedCount }).where(eq(id))
SetCompletedCount(t, id, n) ==
    IF t[id] = NoRow THEN t ELSE [t EXCEPT ![id].completedCount = n]

\* job?.totalCount ?? 1
TotalCountOr1(t, id) == IF t[id] = NoRow THEN 1 ELSE t[id].totalCount

RECURSIVE SumTotals(_, _)
SumTotals(t, q) ==
    IF q = <<>> THEN 0 ELSE TotalCountOr1(t, Head(q)) + SumTotals(t, Tail(q))

IndexOf(q, id) ==
    IF \E k \in 1..Len(q) : q[k] = id
    THEN CHOOSE k \in 1..Len(q) : q[k] = id /\ \A l \in 1..(k - 1) : q[l] # id
    ELSE 0

Splice(q, k) == SubSeq(q, 1, k - 1) \o SubSeq(q, k + 1, Len(q))

Max0(n) == IF n < 0 THEN 0 ELSE n

\* Mutant of Shift: the job id is taken from the end of the queue.
Shift_Pop(q) == [jobId |-> q[Len(q)], rest |-> SubSeq(q, 1, Len(q) - 1)]

\* queue.shift()
Shift(q) == [jobId |-> Head(q), rest |-> Tail(q)]

\* One id of cancelPendingJobs; s holds queue, batchTiming and jobs.
CancelOne(s, id) ==
    LET idx == IndexOf(s.queue, id)
        remaining == s.jobs[id].totalCount - s.jobs[id].completedCount
        timing ==
            IF idx # 0 /\ s.batchTiming # Null /\ s.jobs[id] # NoRow
            THEN [s.batchTiming EXCEPT
                     !.totalImages = Max0(s.batchTiming.totalImages - remaining)]
            ELSE s.batchTiming
    IN [queue |-> IF idx # 0 THEN Splice(s.queue, idx) ELSE s.queue,
        batchTiming |-> timing,
        jobs |-> SetStatus(s.jobs, id, "cancelled")]

RECURSIVE CancelAll(_, _)
CancelAll(s, ids) ==
    IF ids = <<>> THEN s ELSE CancelAll(CancelOne(s, Head(ids)), Tail(ids))

\* The job-id lists cancelPendingJobs is called with.
CancelLists ==
    {<<id>> : id \in JobIds}
    \cup {<<id1, id2>> : <<id1, id2>> \in {p \in JobIds \X JobIds : p[1] # p[2]}}

\* processJob from the test of its for loop, with i = n, to its next await
\* or its return: where it stops, and the table it leaves.
LoopFrom(t, id, n) ==
    IF n < t[id].totalCount
    THEN IF t[id].status = "cancelled"
         THEN [jobs |-> t, pc |-> "returned", i |-> n]
         ELSE [jobs |-> t, pc |-> "generateImage", i |-> n]
    ELSE [jobs |-> SetStatus(t, id, "completed"), pc |-> "returned", i |-> n]

\* processJob from its first line to its first await or its return.
processJob(t, id) ==
    IF t[id] = NoRow \/ t[id].status = "cancelled"
    THEN [jobs |-> t, pc |-> "returned", i |-> 0]
    ELSE IF ~settings.apiKey
    THEN [jobs |-> SetStatus(t, id, "failed"), pc |-> "returned", i |-> 0]
    ELSE LoopFrom(SetStatus(t, id, "running"), id, 0)

\* catch (error): the job is marked failed and processJob returns.
Failed(t, id) == [jobs |-> SetStatus(t, id, "failed"), pc |-> "returned", i |-> imageNo]

\* The while loop of processQueue from its test to the next await, or to
\* the end of the function.
WhileLoop(q, t) ==
    IF Len(q) > 0
    THEN LET sh == Shift(q)
             run == processJob(t, sh.jobId)
         IN /\ queue' = sh.rest
            /\ jobId' = sh.jobId
            /\ started' = Append(started, sh.jobId)
            /\ jobs' = run.jobs
            /\ queuePc' = run.pc
            /\ imageNo' = run.i
            /\ processing' = TRUE
    ELSE /\ processing' = FALSE
         /\ queuePc' = "idle"
         /\ queue' = q
         /\ jobs' = t
         /\ UNCHANGED <<jobId, started, imageNo>>

\* processJob, resumed or failed, up to its next await or return.
Resume(run) ==
    /\ jobs' = run.jobs
    /\ queuePc' = run.pc
    /\ imageNo' = run.i

InitQueue ==
    /\ processing = FALSE
    /\ queue = <<>>
    /\ batchTiming = Null
    /\ jobs = [id \in JobIds |-> NoRow]
    /\ settings \in [apiKey : BOOLEAN, delay : {0, 500}]
    /\ queuePc = "idle"
    /\ jobId = 0
    /\ imageNo = 0
    /\ activeLoops = 0
    /\ enqueued = <<>>
    /\ started = <<>>
    /\ data = Undef
    /\ converted = Pending
    /\ NoParse
    /\ NoA1111
    /\ NoStealth
    /\ NoEarlierCall

\* createGenerationJob / retryJob insert the row of a new job and call
\* enqueueJob(id); with no loop running, processQueue starts and runs to
\* its first await.
EnqueueJob ==
    \E id \in JobIds, count \in Counts :
        /\ id = Len(enqueued) + 1       \* the table gives the ids out in order
        /\ jobs[id] = NoRow
        /\ LET t == [jobs EXCEPT ![id] = NewRow(count)]
               q == Append(queue, id)
           IN /\ enqueued' = Append(enqueued, id)
              /\ IF processing
                 THEN /\ queue' = q
                      /\ jobs' = t
                      /\ batchTiming' =
                            IF batchTiming # Null
                            THEN [batchTiming EXCEPT
                                     !.totalImages = @ + TotalCountOr1(t, id)]
                            ELSE batchTiming
                      /\ UNCHANGED <<processing, queuePc, jobId, imageNo,
                                     activeLoops, started>>
                 ELSE \* processQueue(): a batchTiming of the previous run
                      \* is replaced
                      /\ activeLoops' = activeLoops + 1
                      /\ batchTiming' =
                            [totalImages |-> SumTotals(t, q), completedImages |-> 0]
                      /\ WhileLoop(q, t)
        /\ UNCHANGED <<settings, metadataVars>>

\* cancelPendingJobs(jobIds)
CancelPendingJobs ==
    \E ids \in CancelLists :
        LET s == CancelAll([queue |-> queue, batchTiming |-> batchTiming,
                            jobs |-> jobs], ids)
        IN /\ queue' = s.queue
           /\ batchTiming' = s.batchTiming
           /\ jobs' = s.jobs
           /\ UNCHANGED <<processing, settings, queuePc, jobId, imageNo,
                          activeLoops, enqueued, started, metadataVars>>

\* await generateImage(...) returns: the timing is updated, the image is
\* saved (saveImage may throw) and generateThumbnail is called.
GenerateReturns ==
    /\ queuePc = "generateImage"
    /\ batchTiming' =
          IF batchTiming # Null
          THEN [batchTiming EXCEPT !.completedImages = @ + 1]
          ELSE batchTiming
    /\ \E saved \in BOOLEAN :
          IF saved
          THEN Resume([jobs |-> jobs, pc |-> "generateThumbnail", i |-> imageNo])
          ELSE Resume(Failed(jobs, jobId))
    /\ UNCHANGED <<processing, queue, settings, jobId, activeLoops, enqueued,
                   started, metadataVars>>

\* await generateImage(...) throws.
GenerateThrows ==
    /\ queuePc = "generateImage"
    /\ Resume(Failed(jobs, jobId))
    /\ UNCHANGED <<processing, queue, batchTiming, settings, jobId, activeLoops,
                   enqueued, started, metadataVars>>

\* await generateThumbnail(...) returns: the image is recorded, the
\* progress updated, and the loop goes on after the delay, if any.
ThumbnailReturns ==
    /\ queuePc = "generateThumbnail"
    /\ LET t == SetCompletedCount(jobs, jobId, imageNo + 1)
       IN IF imageNo < jobs[jobId].totalCount - 1 /\ settings.delay > 0
          THEN Resume([jobs |-> t, pc |-> "delay", i |-> imageNo])
          ELSE Resume(LoopFrom(t, jobId, imageNo + 1))
    /\ UNCHANGED <<processing, queue, batchTiming, settings, jobId, activeLoops,
                   enqueued, started, metadataVars>>

\* await generateThumbnail(...) throws.
ThumbnailThrows ==
    /\ queuePc = "generateThumbnail"
    /\ Resume(Failed(jobs, jobId))
    /\ UNCHANGED <<processing, queue, batchTiming, settings, jobId, activeLoops,
                   enqueued, started, metadataVars>>

\* The delay between two images has passed.
DelayElapsed ==
    /\ queuePc = "delay"
    /\ Resume(LoopFrom(jobs, jobId, imageNo + 1))
    /\ UNCHANGED <<processing, queue, batchTiming, settings, jobId, activeLoops,
                   enqueued, started, metadataVars>>

\* await processJob(jobId) returns in processQueue: the next job is taken,
\* or the loop ends and processing is cleared.
QueueResumes ==
    /\ queuePc = "returned"
    /\ WhileLoop(queue, jobs)
    /\ activeLoops' = IF Len(queue) > 0 THEN activeLoops ELSE activeLoops - 1
    /\ UNCHANGED <<batchTiming, settings, enqueued, metadataVars>>

GenerateSettles == GenerateReturns \/ GenerateThrows
ThumbnailSettles == ThumbnailReturns \/ ThumbnailThrows

NextQueue ==
    \/ EnqueueJob
    \/ CancelPendingJobs
    \/ GenerateReturns
    \/ GenerateThrows
    \/ ThumbnailReturns
    \/ ThumbnailThrows
    \/ DelayElapsed
    \/ QueueResumes

SpecQueue == InitQueue /\ [][NextQueue]_vars

\* Every generateImage and generateThumbnail call returns or throws, the
\* timer of the delay fires, and a settled await is resumed.
FairSpecQueue ==
    /\ SpecQueue
    /\ WF_vars(GenerateSettles)
    /\ WF_vars(ThumbnailSettles)
    /\ WF_vars(DelayElapsed)
    /\ WF_vars(QueueResumes)

(***************************************************************************)
(* Claims about the generation queue                                       *)
(***************************************************************************)
StatusOf(id) == jobs[id].status

\* C29: once cancelPendingJobs has set a job's status to 'cancelled', no
\* later step of processJob changes it to 'running', 'completed' or
\* 'failed', whichever await of processJob the cancel arrives at.
C29_CancelledStaysCancelled ==
    [][\A id \in JobIds :
          StatusOf(id) = "cancelled" => jobs'[id].status = "cancelled"]_vars

\* A job was cancelled while its last image was being generated.
C29_CancelledAtLastImage ==
    /\ queuePc = "generateImage"
    /\ StatusOf(jobId) = "cancelled"
    /\ imageNo = jobs[jobId].totalCount - 1

Queued(id) == \E k \in 1..Len(queue) : queue[k] = id
Enqueued(id) == \E k \in 1..Len(enqueued) : enqueued[k] = id
PlaceIn(q, id) == CHOOSE k \in 1..Len(q) : q[k] = id

\* The jobs passed to processJob so far were passed in the order in which
\* they were enqueued, and no job still queued was enqueued before one of
\* them.
StartedFifo ==
    /\ \A a, b \in 1..Len(started) :
          a < b => PlaceIn(enqueued, started[a]) < PlaceIn(enqueued, started[b])
    /\ \A a \in 1..Len(started), k \in 1..Len(queue) :
          PlaceIn(enqueued, started[a]) < PlaceIn(enqueued, queue[k])

\* C30: every job id passed to enqueueJob is eventually off the queue with
\* its job in a terminal status, and processing eventually returns to
\* false with the queue empty, provided every generateImage and
\* generateThumbnail call returns or throws; at most one processQueue loop
\* is active at any time, and jobs are started in the order of the queue.
C30_QueueDrainsInOrder ==
    /\ \A id \in JobIds :
          Enqueued(id) ~> (~Queued(id) /\ StatusOf(id) \in Terminal)
    /\ processing ~> (~processing /\ queue = <<>>)
    /\ [](activeLoops <= 1 /\ (processing <=> activeLoops = 1))
    /\ []StartedFifo

\* C30 witness: three jobs were enqueued; the second was cancelled while it
\* was queued behind the first, the first and the third were started in
\* that order, and the loop has ended with every job in a terminal status.
C30_Witness ==
    /\ Len(enqueued) = 3
    /\ Len(started) = 2
    /\ started = <<enqueued[1], enqueued[3]>>
    /\ StatusOf(enqueued[2]) = "cancelled"
    /\ \A id \in JobIds : StatusOf(id) \in Terminal
    /\ ~processing
    /\ queue = <<>>
    /\ activeLoops = 0

====
